---- MODULE Spec2Model ----
(***************************************************************************)
(* A model of the trw decoder of ncas-radar-wind-profiler-1:               *)
(* read_wp.main reads one binary profile file, resolves its software       *)
(* revision, walks the header with the read position read_pos, decodes     *)
(* no_heights range gates and returns the dictionaries all_data and        *)
(* all_attrs, or raises.                                                   *)
(*                                                                         *)
(* Conventions.                                                            *)
(*  - The file is data = [len, patch]: len bytes, the byte at offset i is  *)
(*    patch[i] where the patch is defined and 0 elsewhere.                 *)
(*  - program_version_no is kept in hundredths (5.43 is 543).              *)
(*  - A float is a record [cls, v]: cls "num" with the integer value v,    *)
(*    "nan", "inf" (v the sign) or "frac" for a value that is not an       *)
(*    integer.  wp_winddir and wp_windspeed hold hundredths.               *)
(*  - A local that Python has not bound yet holds Unbound.                 *)
(*  - filename is the file name YYMDDHMM as its eight characters.          *)
(*  - first keeps the outcome of a first decode when the same file is      *)
(*    decoded a second time.                                               *)
(*                                                                         *)
(* The two programs that merge decoded files into one netCDF file are      *)
(* modelled after the decoder: wind_profiler_netcdf.main with add_dataset  *)
(* (state nc) and process_wp.make_netcdf_snr_winds (state mk).  Both take  *)
(* the list all_trw_files; a file of the list is its path and the outcome  *)
(* of decoding it.                                                         *)
(***************************************************************************)
EXTENDS Integers, Sequences, FiniteSets, TLC

VARIABLES filename, first, data, variance_test, pc, read_pos, loc, arr, k, ret,
          exc, all_trw_files, nc, mk

vars == <<filename, first, data, variance_test, pc, read_pos, loc, arr, k, ret,
          exc, all_trw_files, nc, mk>>

(***************************************************************************)
(* Bounds of the model.                                                    *)
(***************************************************************************)
MaxHeights == 2

MaxCut == 3

(***************************************************************************)
(* Floats.                                                                 *)
(***************************************************************************)
Num(v) == [cls |-> "num", v |-> v]

NaN == [cls |-> "nan", v |-> 0]

Inf(s) == [cls |-> "inf", v |-> s]

Frac == [cls |-> "frac", v |-> 0]

Unbound == [cls |-> "unbound", v |-> 0]

None == [type |-> "None", name |-> "", value |-> Unbound, bound |-> 0]

NoRecord == [returned |-> FALSE]

IsNum(x) == x.cls = "num"

Pow2(n) == 2 ^ n

(***************************************************************************)
(* Byte access: data[i] raises IndexError when i is outside the file.      *)
(***************************************************************************)
InFile(d, i) == i >= 0 /\ i < d.len

Byte(d, i) == IF i \in DOMAIN d.patch THEN d.patch[i] ELSE 0

\* int(f"0b{decimalToBinary(data[p+1])}{decimalToBinary(data[p])}", 2)
U16(d, p) == Byte(d, p) + 256 * Byte(d, p + 1)

\* the low 31 bits of the 32-bit little-endian word at p
Low31(d, p) == Byte(d, p) + 256 * Byte(d, p + 1) + 65536 * Byte(d, p + 2)
               + 16777216 * (Byte(d, p + 3) % 128)

SignBit32(d, p) == Byte(d, p + 3) \div 128

\* unsigned 32 bit; the model keeps the top bit clear (values below 2^31)
U32(d, p) == Low31(d, p)

\* "signed 16 bit": sign = first character of the bit string, magnitude =
\* int(bits[1:], 2)
SignMagnitude16(d, p) ==
    LET bits == U16(d, p)
        sign == IF bits < 32768 THEN 1 ELSE -1
    IN  sign * (bits % 32768)

I16(d, p) == SignMagnitude16(d, p)

\* "signed 32 bit": the same string parse on four bytes
SignMagnitude32(d, p) ==
    LET sign == IF SignBit32(d, p) = 0 THEN 1 ELSE -1
    IN  sign * Low31(d, p)

I32(d, p) == SignMagnitude32(d, p)

\* struct.unpack('!f', struct.pack('!I', int(binary, 2)))[0]
bin_to_float32(d, p) ==
    LET s == SignBit32(d, p)
        e == (Byte(d, p + 3) % 128) * 2 + (Byte(d, p + 2) \div 128)
        m == (Byte(d, p + 2) % 128) * 65536 + Byte(d, p + 1) * 256 + Byte(d, p)
        sg == IF s = 0 THEN 1 ELSE -1
        full == 8388608 + m
    IN  IF e = 255 THEN (IF m = 0 THEN Inf(sg) ELSE NaN)
        ELSE IF e = 0 THEN (IF m = 0 THEN Num(0) ELSE Frac)
        ELSE IF e >= 150
             THEN (IF e <= 157 THEN Num(sg * full * Pow2(e - 150)) ELSE Frac)
        ELSE IF e < 127 THEN Frac
        ELSE IF full % Pow2(150 - e) = 0
             THEN Num(sg * (full \div Pow2(150 - e)))
        ELSE Frac

F32(d, p) == bin_to_float32(d, p)

(***************************************************************************)
(* Revision resolution (read_wp.py 146-210).                               *)
(***************************************************************************)
\* the marker taken without negation
NegateUint16_Plain(version_no) == version_no

\* np.uint16(-1 * version_no)
NegateUint16(version_no) == (65536 - version_no) % 65536

TableKeys == {5, 6, 7, 8, 10, 11, 13, 14, 16, 19, 21, 22, 24}

\* the if/elif chain on convert_version_no_uint; no branch for other values
VersionString(m) ==
    CASE m = 5 -> "1.2"
      [] m = 6 -> "2.0"
      [] m = 7 -> "2.1"
      [] m = 8 -> "2.2"
      [] m = 10 -> "3.31"
      [] m = 11 -> "5.34"
      [] m = 13 -> "5.36"
      [] m = 14 -> "5.37"
      [] m = 16 -> "5.39"
      [] m = 19 -> "5.43"
      [] m = 21 -> "5.45"
      [] m = 22 -> "7.47"
      [] m = 24 -> "7.49"
      [] OTHER -> "unbound"

\* float(operational_software_version), in hundredths
FloatOfVersion(s) ==
    CASE s = "1.2" -> 120
      [] s = "2.0" -> 200
      [] s = "2.1" -> 210
      [] s = "2.2" -> 220
      [] s = "3.31" -> 331
      [] s = "5.34" -> 534
      [] s = "5.36" -> 536
      [] s = "5.37" -> 537
      [] s = "5.39" -> 539
      [] s = "5.43" -> 543
      [] s = "5.45" -> 545
      [] s = "7.47" -> 747
      [] s = "7.49" -> 749
      [] OTHER -> 0

KnownVersions == {120, 200, 210, 220, 331, 534, 536, 537, 539, 543, 545, 747, 749}

(***************************************************************************)
(* Layout: the sizes and offsets that the straight-line code of main       *)
(* walks through, per program_version_no V.                                *)
(***************************************************************************)
\* read_wp.py 221-237
InitialReadPos(V) ==
    CASE V = 120 -> 98
      [] V \in {200, 210, 220} -> 158
      [] V \in {331, 534} -> 158 + (4 * 12)
      [] V \in {536, 537} -> 158 + (4 * 12) + (4 * 11)
      [] V = 539 -> 158 + (4 * 12) + (4 * 22)
      [] V \in {543, 545, 747} -> 26
      [] V = 749 -> 24
      [] OTHER -> -1

\* read_wp.py 257-271: the jump over the colour structure
ColourJump(V) ==
    (IF V < 331 THEN 8 ELSE 0)
    + (IF V < 543 THEN 2
       ELSE IF V = 543 THEN 16
       ELSE IF V \in {545, 747} THEN 52
       ELSE 54)

\* read_wp.py 245-288
ProcessingDurOffset(V) == 10 + ColourJump(V)

ProcessingDurWidth(V) == IF V < 331 THEN 2 ELSE 4

CorrectionsSize(V) == ProcessingDurOffset(V) + ProcessingDurWidth(V) + 2

\* a geometry position taken from the parameter-table and heading sizes
GeometryPos_FromTable(V, rp) ==
    IF V < 536 THEN rp
    ELSE IF V = 536 THEN 250
    ELSE loc.m_TrtParametersize + loc.heading_size - (IF V = 543 THEN 96 ELSE 60)

\* read_wp.py 296-304
GeometryPos(V, rp) ==
    IF V < 536 THEN rp
    ELSE IF V = 536 THEN 250
    ELSE IF V = 543 THEN 24 + (8 + 4) * 4 + 272 + 40
    ELSE 24 + (8 + 13) * 4 + 272 + 40

\* read_wp.py 313-411: the number of direction vectors, the bytes a vector
\* (and the count of radials before them) advances the cursor by, the gap
\* stepped over after the vectors and the one after the elevation angles
GeometryVectors(V) == IF V >= 539 THEN 5 ELSE 3

GeometryVectorWidth(V) == IF V >= 539 /\ V < 543 THEN 2 ELSE IF V >= 543 THEN 4 ELSE 2

GeometryCountWidth(V) == IF V >= 539 THEN GeometryVectorWidth(V) ELSE 0

\* a gap that revision 5.39 steps over as well
GeometryGap_From539(V) == IF V >= 539 THEN 4 ELSE 0

GeometryGap(V) ==
    IF V >= 539 /\ V < 543 THEN (IF V > 539 THEN 4 ELSE 0)
    ELSE IF V >= 543 THEN 4
    ELSE 0

GeometryEndGap(V) ==
    IF V >= 539 /\ V < 543 THEN (IF V > 539 THEN 2 ELSE 0)
    ELSE IF V >= 543 THEN 2
    ELSE 0

\* bytes walked, and bytes up to the end of the last read: antenna
\* directions and elevation angles are 16-bit in every branch
GeometryExtent(V) ==
    GeometryCountWidth(V) + GeometryVectors(V) * GeometryVectorWidth(V)
    + GeometryGap(V) + GeometryVectors(V) * (2 + 2)

GeometrySize(V) == GeometryExtent(V) + GeometryEndGap(V)

\* read_wp.py 448
ProfileStart(m_TrtParametersize, heading_size) ==
    m_TrtParametersize + heading_size + 2

\* read_wp.py 451-530: bytes from the profile start to no_heights
NoHeightsOffset(V) ==
    (IF V < 543 THEN 2 ELSE 6)
    + 4
    + (IF V > 331 THEN 4 ELSE IF V > 120 THEN 2 ELSE 0)
    + 2 + 4 + 4 + 4
    + (IF V < 331 THEN 2 ELSE 4)
    + 2

\* read_wp.py 533-542
ProfileHeaderSize(V) == NoHeightsOffset(V) + 2 + 4 + 4

\* read_wp.py 547-582: a2, six codes, antenna type and jump, beamwidth,
\* frequency, latitude, longitude, altitude
SiteSize == 4 + 12 + 4 + 4 + 4 + 4 + 4 + 4

LatitudeOffset == 4 + 12 + 4 + 4 + 4

\* read_wp.py 585-650
RainDetectionOffset(V) == (IF V > 200 THEN 4 ELSE 0) + 4 + 28

\* rain detection read from 5.43 on
HasRainDetection_From543(V) == V >= 200 /\ V >= 310 /\ V >= 543

HasRainDetection(V) == V >= 200 /\ V >= 310 /\ V > 543

\* read_wp.py 647-650
HasShelterTemp(V) == V >= 200 /\ V >= 310 /\ V > 543

\* the electrical fields read from 2.0 on
HasElectrical_From20(V) == V >= 200

\* read_wp.py 593-631, 636-645: the voltages, overheating, preheating, vswr,
\* attenuation and current
HasElectrical(V) == V >= 200 /\ V >= 310

VoltageOffset(V) == (IF V > 200 THEN 4 ELSE 0) + 4

RainDetectionSize(V) == IF HasRainDetection(V) THEN 4 ELSE 0

ShelterTempSize(V) == IF HasShelterTemp(V) THEN 4 ELSE 0

CurrentOffset(V) == VoltageOffset(V) + 28 + RainDetectionSize(V) + 4

ElectricalSize(V) ==
    (IF V > 200 THEN 4 ELSE 0)
    + (IF V >= 200 THEN 4 ELSE 0)
    + (IF HasElectrical(V) THEN 7 * 4 + 4 + 4 ELSE 0)
    + RainDetectionSize(V)
    + ShelterTempSize(V)

\* read_wp.py 654-680
SunSize(V) == (IF V < 534 THEN 2 ELSE IF V < 543 THEN 18 ELSE 30) + 4

TelemetrySize(V) == ElectricalSize(V) + SunSize(V)

\* read_wp.py 688-822
CalibrationSize(V) ==
    (IF V = 543 THEN 2 ELSE 0)
    + (IF V >= 545 THEN 38 + 24 + (IF V >= 749 THEN 16 ELSE 0) ELSE 24)
    + 16
    + (IF V >= 534 THEN 20 ELSE 0)
    + (IF V >= 536 THEN 4 ELSE 0)
    + 20
    + (IF V >= 534 THEN 4 ELSE 0)

\* read_wp.py 927-1067: u, v, w, colour, 3 radial velocities, 3 widths,
\* 3 signals, 3 noises
GateCoreSize == 16 * 4

\* read_wp.py 1077-1369
VarianceSize(V, vt) ==
    IF vt THEN 48 * 4
    ELSE IF V >= 220 THEN (60 - 13 + 1) * 4
    ELSE 0

SkewOffset == GateCoreSize + 9 * 4

\* read_wp.py 1391-1505: 3 validation codes, 3 SNR, overall validation
ValidationSize == 7 * 4

\* read_wp.py 1519-1550
DureeWidth(V) == IF V > 300 THEN 4 ELSE 2

ProcessingSize(V) ==
    IF V > 120
    THEN DureeWidth(V) + 2 + (IF V > 534 THEN 2 ELSE 0) + 4
    ELSE 0

\* read_wp.py 1570-1631: measure durations, consensus and widths, and
\* qc_override with the two bytes after it
MeasureSize(V) ==
    (IF V > 210 THEN 12 ELSE 0)
    + (IF V > 534 THEN 24 ELSE 0)
    + (IF V > 200 THEN 4 ELSE 0)

\* twelve five-beam floats for every revision that has the block
FiveBeamSize_Twelve(V) == IF V >= 536 THEN 12 * 4 ELSE 0

\* read_wp.py 1633-1697: the five-beam floats
FiveBeamSize(V) == IF V >= 545 THEN 12 * 4 ELSE IF V >= 536 THEN 8 * 4 ELSE 0

\* read_wp.py 1699-1754: the corrected velocities
CorrectedSize(V) == IF V >= 543 THEN 18 * 4 ELSE 0

\* read_wp.py 1761-1771: the display colour
DisplayColourSize(V) == IF V > 545 THEN 3 * 4 ELSE 0

\* read_wp.py 1570-1771
GateTailSize(V) ==
    MeasureSize(V) + FiveBeamSize(V) + CorrectedSize(V) + DisplayColourSize(V)

\* bytes of the tail up to the end of its last read: the two bytes after
\* qc_override are stepped over, not read
GateTailExtent(V) ==
    IF V >= 536 THEN GateTailSize(V)
    ELSE IF V > 200 THEN GateTailSize(V) - 2
    ELSE 0

GateSize(V, vt) ==
    GateCoreSize + VarianceSize(V, vt) + ValidationSize + ProcessingSize(V)
    + GateTailSize(V)

\* bytes of a gate up to the end of its last read
GateReadExtent(V, vt) ==
    GateCoreSize + VarianceSize(V, vt) + ValidationSize + ProcessingSize(V)
    + GateTailExtent(V)

(***************************************************************************)
(* Derived quantities (read_wp.py 929-957, 1399-1408, 1499).               *)
(***************************************************************************)
\* if d1 == 999999: d1 = np.nan
MapSentinel(x) == IF IsNum(x) /\ x.v = 999999 THEN NaN ELSE x

Abs(n) == IF n < 0 THEN -n ELSE n

Sign(n) == IF n < 0 THEN -1 ELSE IF n > 0 THEN 1 ELSE 0

\* np.arctan(n/d) * (180/np.pi) in hundredths of a degree, n, d in 1..4
ArctanTable ==
    <<  <<4500, 2657, 1843, 1404>>,
        <<6343, 4500, 3369, 2657>>,
        <<7157, 5631, 4500, 3687>>,
        <<7596, 6343, 5313, 4500>>  >>

\* np.arctan(-u / -v) * (180 / np.pi), hundredths of a degree
ArctanDeg(u, v) ==
    IF ~ IsNum(u) \/ ~ IsNum(v) THEN NaN
    ELSE IF v.v = 0
         THEN (IF u.v = 0 THEN NaN ELSE Num(Sign(u.v) * 9000))
    ELSE IF u.v = 0 THEN Num(0)
    ELSE IF Abs(u.v) \in 1..4 /\ Abs(v.v) \in 1..4
         THEN Num(Sign(u.v) * Sign(v.v) * ArctanTable[Abs(u.v)][Abs(v.v)])
    ELSE Frac

\* the direction without the +180 quadrant correction
WindDirFix_NoFix(dir, u, v) ==
    IF IsNum(dir) /\ dir.v < 0 THEN Num(dir.v + 36000) ELSE dir

\* the +360 shift and the +180 "fix" (read_wp.py 950-954)
WindDirFix(dir, u, v) ==
    LET shifted == IF IsNum(dir) /\ dir.v < 0 THEN Num(dir.v + 36000) ELSE dir
    IN  IF IsNum(u) /\ IsNum(v) /\ IsNum(shifted)
           /\ u.v > 0 /\ v.v > 0 /\ shifted.v < 9000
        THEN Num(shifted.v + 18000)
        ELSE shifted

\* read_wp.py 949-955
WindDir(u, v) == WindDirFix(ArctanDeg(u, v), u, v)

ISqrt(x) == CHOOSE r \in 0..1000 : r * r <= x /\ (r + 1) * (r + 1) > x

\* a speed that counts a missing component as zero
WindSpeed_MissingAsZero(u, v) ==
    LET a == IF IsNum(u) THEN u.v ELSE 0
        b == IF IsNum(v) THEN v.v ELSE 0
    IN  IF Abs(a) > 9 \/ Abs(b) > 9 THEN Frac
        ELSE Num(ISqrt(10000 * (a * a + b * b)))

\* read_wp.py 957, hundredths
WindSpeed(u, v) ==
    IF ~ IsNum(u) \/ ~ IsNum(v) THEN NaN
    ELSE IF Abs(u.v) > 9 \/ Abs(v.v) > 9 THEN Frac
    ELSE Num(ISqrt(10000 * (u.v * u.v + v.v * v.v)))

\* a flag that lets the code 2 through
QcFlagBeam_Bad(d2) == IF d2 = 1 THEN 1 ELSE IF d2 = 2 THEN 2 ELSE 3

\* read_wp.py 1399-1408: d2 is the decoded validation code
QcFlagBeam(d2) == IF d2 = 1 THEN 1 ELSE 3

\* np.min(mini_array)
Min3(a, b, c) ==
    IF IsNum(a) /\ IsNum(b) /\ IsNum(c)
    THEN Num(IF a.v <= b.v /\ a.v <= c.v THEN a.v
             ELSE IF b.v <= c.v THEN b.v ELSE c.v)
    ELSE NaN

\* altitudes counted from the gate above
Altitude_FromOne(min_height, height_increment, i) ==
    IF IsNum(min_height) /\ IsNum(height_increment)
    THEN Num(height_increment.v * (i + 1) + min_height.v)
    ELSE NaN

\* height_increment * k + min_height
Altitude(min_height, height_increment, i) ==
    IF IsNum(min_height) /\ IsNum(height_increment)
    THEN Num(height_increment.v * i + min_height.v)
    ELSE NaN

\* m_dureeTraitment > 120
DureeTooLong(x) == (IsNum(x) /\ x.v > 120) \/ (x.cls = "inf" /\ x.v > 0)

(***************************************************************************)
(* Exceptions.                                                             *)
(***************************************************************************)
IndexError == [type |-> "IndexError", name |-> "", value |-> Unbound, bound |-> 0]

UnboundLocalError(n) ==
    [type |-> "UnboundLocalError", name |-> n, value |-> Unbound, bound |-> 0]

\* ValueError(f'Value {n} {v} is greater than / less than {b}')
ValueError(n, v, b) == [type |-> "ValueError", name |-> n, value |-> v, bound |-> b]

(***************************************************************************)
(* One range gate (read_wp.py 920-1775), decoded at offset p.              *)
(***************************************************************************)
ValidationPos(p, V, vt) == p + GateCoreSize + VarianceSize(V, vt)

ProcessingPos(p, V, vt) == ValidationPos(p, V, vt) + ValidationSize

\* read_wp.py 1519-1537
m_dureeTraitment(d, p, V, vt) ==
    IF V > 300 THEN F32(d, ProcessingPos(p, V, vt))
    ELSE Num(I16(d, ProcessingPos(p, V, vt)))

m_DecalageTraitment(d, p, V, vt) ==
    I16(d, ProcessingPos(p, V, vt) + DureeWidth(V))

\* read_wp.py 1559-1567: the exception raised by the gate at p, or None
GateCheck(d, p, V, vt) ==
    IF V <= 120 THEN None
    ELSE IF DureeTooLong(m_dureeTraitment(d, p, V, vt))
         THEN ValueError("m_dureeTraitment", m_dureeTraitment(d, p, V, vt), 120)
    ELSE IF m_DecalageTraitment(d, p, V, vt) < 0
         THEN ValueError("m_DecalageTraitment",
                         Num(m_DecalageTraitment(d, p, V, vt)), 0)
    ELSE IF m_DecalageTraitment(d, p, V, vt) > 60
         THEN ValueError("m_DecalageTraitment",
                         Num(m_DecalageTraitment(d, p, V, vt)), 60)
    ELSE None

\* a gate read that never runs off the end of the buffer
GateException_Unchecked(d, p, V, vt) == GateCheck(d, p, V, vt)

\* the first exception of the gate at p: reads up to the processing block,
\* the range checks, then the reads of the tail
GateException(d, p, V, vt) ==
    IF d.len < ProcessingPos(p, V, vt) + ProcessingSize(V) THEN IndexError
    ELSE IF GateCheck(d, p, V, vt) # None THEN GateCheck(d, p, V, vt)
    ELSE IF d.len < p + GateReadExtent(V, vt) THEN IndexError
    ELSE None

\* the values one iteration stores at index k
\* read_wp.py 1539-1544: the 16-bit word after m_DecalageTraitment
dShort(d, p, V, vt) ==
    IF V > 534 THEN I16(d, ProcessingPos(p, V, vt) + DureeWidth(V) + 2) ELSE 0

\* the flag tested against the word decoded from the gate
dshort_Decoded(d, p, V, vt) == dShort(d, p, V, vt)

\* read_wp.py 909: dshort is bound once, before the loop over heights; the
\* word decoded at 1541-1543 is bound to another name, dShort
dshort(d, p, V, vt) == 0

\* read_wp.py 1508
QcFlagWind(ds) == IF ds = 1 THEN 1 ELSE 3

GateValues(d, p, V, vt) ==
    LET u == MapSentinel(F32(d, p))
        v == MapSentinel(F32(d, p + 4))
        vp == ValidationPos(p, V, vt)
        s1 == MapSentinel(F32(d, vp + 12))
        s2 == MapSentinel(F32(d, vp + 16))
        s3 == MapSentinel(F32(d, vp + 20))
    IN  [u_east |-> u,
         v_north |-> v,
         w_vert |-> MapSentinel(F32(d, p + 8)),
         wp_winddir |-> WindDir(u, v),
         wp_windspeed |-> WindSpeed(u, v),
         width_1 |-> MapSentinel(F32(d, p + 28)),
         width_2 |-> MapSentinel(F32(d, p + 32)),
         width_3 |-> MapSentinel(F32(d, p + 36)),
         skew_1 |-> IF vt THEN MapSentinel(F32(d, p + SkewOffset)) ELSE Num(0),
         skew_2 |-> IF vt THEN MapSentinel(F32(d, p + SkewOffset + 4)) ELSE Num(0),
         skew_3 |-> IF vt THEN MapSentinel(F32(d, p + SkewOffset + 8)) ELSE Num(0),
         validation_1 |-> I32(d, vp),
         validation_2 |-> I32(d, vp + 4),
         validation_3 |-> I32(d, vp + 8),
         qc_flag_beam_1 |-> QcFlagBeam(I32(d, vp)),
         qc_flag_beam_2 |-> QcFlagBeam(I32(d, vp + 4)),
         qc_flag_beam_3 |-> QcFlagBeam(I32(d, vp + 8)),
         SNR_1 |-> s1,
         SNR_2 |-> s2,
         SNR_3 |-> s3,
         SNR_min |-> Min3(s1, s2, s3),
         overall_validation |-> I32(d, vp + 24),
         qc_flag_wind |-> QcFlagWind(dshort(d, p, V, vt))]

ArrayNames ==
    {"altitude", "u_east", "v_north", "w_vert", "wp_winddir", "wp_windspeed",
     "width_1", "width_2", "width_3", "skew_1", "skew_2", "skew_3",
     "SNR_1", "SNR_2", "SNR_3", "SNR_min"}

IntArrayNames ==
    {"validation_1", "validation_2", "validation_3", "qc_flag_beam_1",
     "qc_flag_beam_2", "qc_flag_beam_3", "overall_validation", "qc_flag_wind"}

\* np.zeros(no_heights) for every per-gate array (read_wp.py 828-918)
Zeros(n) ==
    [a \in ArrayNames \cup IntArrayNames |->
        IF a \in ArrayNames THEN [i \in 1..n |-> Num(0)] ELSE [i \in 1..n |-> 0]]

(***************************************************************************)
(* Input files.  A file is laid out as the instrument writes it (variance  *)
(* block present in every gate); a scenario overrides a few of its words.  *)
(***************************************************************************)
\* little-endian words
W16(n) == <<n % 256, n \div 256>>

F_3 == <<0, 0, 64, 64>>

F_4 == <<0, 0, 128, 64>>

F_m3 == <<0, 0, 64, 192>>

F_75 == <<0, 0, 150, 66>>

F_100 == <<0, 0, 200, 66>>

F_120 == <<0, 0, 240, 66>>

F_121 == <<0, 0, 242, 66>>

F_NaN == <<0, 0, 192, 127>>

F_Sentinel == <<240, 35, 116, 73>>

I_Sentinel == <<63, 66, 15, 0>>

I_1 == <<1, 0, 0, 0>>

I_2 == <<2, 0, 0, 0>>

I_AllOnes == <<255, 255, 255, 255>>

I_TopBit == <<0, 0, 0, 128>>

I_TopBitOne == <<1, 0, 0, 128>>

Markers == TableKeys \cup {0, 9, 25}

WindWords == {F_3, F_4, F_m3, F_Sentinel}

CodeWords == {I_1, I_2, I_Sentinel, I_AllOnes, I_TopBit, I_TopBitOne}

DecalageWords == {W16(60), W16(61), <<255, 255>>, <<0, 128>>, <<1, 128>>}

Put(at, w) == [at |-> at, w |-> w]

PatchOf(entries) ==
    [i \in UNION {e.at .. (e.at + Len(e.w) - 1) : e \in entries} |->
        LET e == CHOOSE x \in entries : i \in x.at .. (x.at + Len(x.w) - 1)
        IN  e.w[i - e.at + 1]]

FileHeading == 10

FileParameterSize == 470

\* preambles: the words at bytes 2-3 and 4-5 and the parameter-table size.
\* The first is the usual one; the others put 20 and more than 20 at bytes
\* 2-3 and change the parameter-table size.
DefaultPreamble ==
    [b23 |-> FileHeading, b45 |-> 0, ht |-> 2, ps |-> FileParameterSize]

Preambles ==
    {DefaultPreamble,
     [b23 |-> 20, b45 |-> 7, ht |-> 2, ps |-> FileParameterSize],
     [b23 |-> 21, b45 |-> FileHeading, ht |-> 0, ps |-> FileParameterSize],
     [b23 |-> 300, b45 |-> 30, ht |-> 255, ps |-> FileParameterSize],
     [b23 |-> FileHeading, b45 |-> 0, ht |-> 2, ps |-> FileParameterSize + 4]}

\* where the instrument puts the profile header of a file with preamble pre
LayoutProfileStart(pre) ==
    pre.ps + (IF pre.b23 > 20 THEN pre.b45 ELSE pre.b23) + 2

LayoutSiteStart(V, pre) == LayoutProfileStart(pre) + ProfileHeaderSize(V)

LayoutGateStart(V, g, pre) ==
    LayoutSiteStart(V, pre) + SiteSize + TelemetrySize(V) + CalibrationSize(V)
    + g * GateSize(V, TRUE)

LayoutLen(V, nh, pre) == LayoutGateStart(V, nh, pre)

\* the words every file of marker m with nh gates holds
BaseEntries(m, nh, pre) ==
    LET V == FloatOfVersion(VersionString(m))
        ps == LayoutProfileStart(pre)
    IN  {Put(2, W16(pre.b23)), Put(4, W16(pre.b45)), Put(6, <<pre.ht>>),
         Put(8, W16((65536 - m) % 65536)), Put(12, <<16, 39, 0, 0>>),
         Put(22, W16(pre.ps))}
        \cup (IF m \in TableKeys
              THEN {Put(ps + NoHeightsOffset(V), W16(nh)),
                    Put(ps + NoHeightsOffset(V) + 2, F_100),
                    Put(ps + NoHeightsOffset(V) + 6, F_75)}
              ELSE {})

\* scenarios: sets of words that replace the defaults
HeaderScenarios(V, pre) ==
    {{}}
    \cup {{Put(LayoutSiteStart(V, pre) + LatitudeOffset, F_Sentinel)},
          {Put(LayoutSiteStart(V, pre) + LatitudeOffset + 4, F_Sentinel)},
          {Put(LayoutProfileStart(pre) + NoHeightsOffset(V) + 6, F_Sentinel)}}
    \cup (IF HasRainDetection(V)
          THEN {{Put(LayoutSiteStart(V, pre) + SiteSize + RainDetectionOffset(V), w)} :
                    w \in {I_1, I_AllOnes}}
          ELSE {})
    \cup (IF V >= 200
          THEN {{Put(LayoutSiteStart(V, pre) + SiteSize + VoltageOffset(V), I_1)}}
          ELSE {})

GateScenarios(V, g, pre) ==
    LET p == LayoutGateStart(V, g, pre)
        vp == ValidationPos(p, V, TRUE)
        pp == ProcessingPos(p, V, TRUE)
    IN  {{Put(p, u), Put(p + 4, v)} : u \in WindWords, v \in WindWords}
        \cup {{Put(vp + 4 * b, c)} : b \in 0..2, c \in CodeWords}
        \cup {{Put(vp + 12, F_Sentinel)}}
        \cup (IF V > 300
              THEN {{Put(pp, w)} : w \in {F_120, F_121, F_NaN}}
              ELSE IF V > 120
              THEN {{Put(pp, w)} : w \in {W16(120), W16(121)}}
              ELSE {})
        \cup (IF V > 120
              THEN {{Put(pp + DureeWidth(V), w)} : w \in DecalageWords}
              ELSE {})
        \cup (IF V > 534
              THEN {{Put(pp + DureeWidth(V) + 2, W16(1)), Put(vp + 24, I_1)}}
              ELSE {})

\* the other preambles come with the plain file only
Scenarios(m, nh, pre) ==
    LET V == FloatOfVersion(VersionString(m))
    IN  IF m \in TableKeys /\ pre = DefaultPreamble
        THEN HeaderScenarios(V, pre)
             \cup UNION {GateScenarios(V, g, pre) : g \in 0..(nh - 1)}
        ELSE {{}}

\* a scenario word replaces the base word at the same offset; the file
\* holds the first n bytes
MkPatch(m, nh, sc, n, pre) ==
    LET whole == PatchOf({e \in BaseEntries(m, nh, pre) : \A x \in sc : x.at # e.at}
                         \cup sc)
    IN  [i \in {j \in DOMAIN whole : j < n} |-> whole[i]]

\* lengths: the whole file, the file short of its last bytes, and stumps
Lengths(m, nh, pre) ==
    LET full == IF m \in TableKeys
                THEN LayoutLen(FloatOfVersion(VersionString(m)), nh, pre)
                ELSE 24
    IN  IF pre = DefaultPreamble
        THEN {full - c : c \in 0..MaxCut} \cup {12, 40, full - 100}
        ELSE {full}

(***************************************************************************)
(* The file name (read_wp.py 74-115).                                      *)
(***************************************************************************)
\* a table that counts the letters from eleven
letters_as_numbers_FromEleven ==
    ("a" :> 11) @@ ("b" :> 12) @@ ("c" :> 13) @@ ("d" :> 14) @@ ("e" :> 15)
    @@ ("f" :> 16) @@ ("g" :> 17) @@ ("h" :> 18) @@ ("i" :> 19) @@ ("j" :> 20)
    @@ ("k" :> 21) @@ ("l" :> 22) @@ ("m" :> 23) @@ ("n" :> 24)

\* read_wp.py 74-77
letters_as_numbers ==
    ("a" :> 10) @@ ("b" :> 11) @@ ("c" :> 12) @@ ("d" :> 13) @@ ("e" :> 14)
    @@ ("f" :> 15) @@ ("g" :> 16) @@ ("h" :> 17) @@ ("i" :> 18) @@ ("j" :> 19)
    @@ ("k" :> 20) @@ ("l" :> 21) @@ ("m" :> 22) @@ ("n" :> 23)

DigitValue ==
    ("0" :> 0) @@ ("1" :> 1) @@ ("2" :> 2) @@ ("3" :> 3) @@ ("4" :> 4)
    @@ ("5" :> 5) @@ ("6" :> 6) @@ ("7" :> 7) @@ ("8" :> 8) @@ ("9" :> 9)

\* int() of a string of one or two characters; NotAnInt where int() raises
NotAnInt == -1

IntOfChars(cs) ==
    IF \A i \in 1..Len(cs) : cs[i] \in DOMAIN DigitValue
    THEN IF Len(cs) = 1 THEN DigitValue[cs[1]]
         ELSE 10 * DigitValue[cs[1]] + DigitValue[cs[2]]
    ELSE NotAnInt

\* the month and hour characters: a letter of the table, else int()
MonthOrHour(c) ==
    IF c \in DOMAIN letters_as_numbers THEN letters_as_numbers[c]
    ELSE IntOfChars(<<c>>)

\* dt.datetime(year, month, day, hour, minutes) accepts these
DaysInMonth(year, month) ==
    IF month = 2 THEN (IF year % 4 = 0 /\ (year % 100 # 0 \/ year % 400 = 0)
                       THEN 29 ELSE 28)
    ELSE IF month \in {4, 6, 9, 11} THEN 30
    ELSE 31

ValidDateTime(year, month, day, hour, minutes) ==
    /\ year \in 1..9999
    /\ month \in 1..12
    /\ day \in 1..DaysInMonth(year, month)
    /\ hour \in 0..23
    /\ minutes \in 0..59

\* file names: the usual one, and the month, day, hour and minute
\* characters drawn from small sets
DefaultName == <<"2", "4", "a", "1", "5", "n", "3", "0">>

MonthChars == {"0", "1", "9", "a", "c", "d", "n", "A"}

DayChars == {<<"0", "1">>, <<"3", "1">>, <<"0", "0">>, <<"1", "a">>}

HourChars == {"0", "9", "a", "n", "o"}

MinuteChars == {<<"0", "0">>, <<"5", "9">>, <<"6", "0">>}

Filenames ==
    {<<"2", "4", mo, d[1], d[2], h, mi[1], mi[2]>> :
        mo \in MonthChars, d \in DayChars, h \in HourChars, mi \in MinuteChars}
    \cup {DefaultName, <<"x", "4", "a", "1", "5", "n", "3", "0">>}

LocInit ==
    [heading_size |-> 0, header_type |-> 0, version_no |-> 0,
     convert_version_no_uint |-> 0, start_date_unix |-> 0,
     m_TrtParametersize |-> 0, operational_software_version |-> "unbound",
     program_version_no |-> 0, Processing_dur |-> Unbound,
     Lag_between_processing |-> 0, no_heights |-> 0, min_height |-> Unbound,
     height_increment |-> Unbound, latitude_file |-> Unbound,
     longitude_file |-> Unbound, altitude_site |-> Unbound,
     rain_detection |-> Unbound, voltage1 |-> Unbound, current |-> Unbound,
     shelter_temp |-> Unbound, year |-> 0, month |-> 0, day |-> 0, hour |-> 0,
     minutes |-> 0, time_in_minutes_since_start_of_day |-> 0]

\* no decode of the file has finished yet
NotRun == [ran |-> FALSE]

(***************************************************************************)
(* The input of the two netCDF writers: a list of trw files.  A file is    *)
(* its path, as the sequence of its components, and what decoding it       *)
(* gives: the fields of all_data and all_attrs the writers use             *)
(* (read_wp.py 1886-1926), or the exception the decoder raises.  time is   *)
(* in seconds, a day has 86400 of them, and instrument_software_version    *)
(* is kept in hundredths as a text.                                        *)
(***************************************************************************)
MaxFiles == 3

\* a text attribute; '' is the empty text
Text(code) == [cls |-> "str", v |-> code]

EmptyText == Text(0)

Decoded(t, d, alt, lat, lon, ws, ver, avg) ==
    [decoded |-> TRUE, exc |-> None,
     all_data |-> [time |-> Num(t), year |-> 2024, month |-> 10, day |-> d,
                   altitude |-> alt, latitude |-> lat, longitude |-> lon,
                   wind_speed |-> ws],
     all_attrs |-> [instrument_software_version |-> Text(ver),
                    averaging_interval |-> Num(avg),
                    sampling_interval |-> Num(60)]]

\* a file the decoder gives up on
Undecodable ==
    [decoded |-> FALSE, exc |-> IndexError,
     all_data |-> [time |-> NaN, year |-> 0, month |-> 0, day |-> 0,
                   altitude |-> <<>>, latitude |-> NaN, longitude |-> NaN,
                   wind_speed |-> <<>>],
     all_attrs |-> [instrument_software_version |-> EmptyText,
                    averaging_interval |-> NaN,
                    sampling_interval |-> NaN]]

Grid == <<Num(100), Num(175)>>

\* 15 October, ten minutes into the day
RecBase ==
    Decoded(15 * 86400 + 600, 15, Grid, Num(52), Num(-4), <<Num(5), Num(5)>>, 545, 30)

\* the same day, later, a wind below and a wind above those of RecBase
RecLater ==
    Decoded(15 * 86400 + 1500, 15, Grid, Num(52), Num(-4), <<Num(3), Num(8)>>, 749, 15)

\* the same day, earlier, with a missing wind
RecEarlier ==
    Decoded(15 * 86400 + 300, 15, Grid, Num(52), Num(-4), <<NaN, Num(9)>>, 545, 30)

\* the next day
RecNextDay ==
    Decoded(16 * 86400 + 600, 16, Grid, Num(52), Num(-4), <<Num(5), Num(5)>>, 545, 30)

\* another altitude grid of the same length
RecOtherGrid ==
    Decoded(15 * 86400 + 900, 15, <<Num(100), Num(200)>>, Num(52), Num(-4),
            <<Num(5), Num(5)>>, 545, 30)

\* one gate only
RecOneGate ==
    Decoded(15 * 86400 + 900, 15, <<Num(100)>>, Num(52), Num(-4), <<Num(5)>>, 545, 30)

RecOtherLatitude ==
    Decoded(15 * 86400 + 900, 15, Grid, Num(53), Num(-4), <<Num(5), Num(5)>>, 545, 30)

RecOtherLongitude ==
    Decoded(15 * 86400 + 900, 15, Grid, Num(52), Num(-5), <<Num(5), Num(5)>>, 545, 30)

Paths ==
    {<<"data", "TRT0", "24a15n30.trw">>, <<"data", "TRT1", "24a15n30.trw">>,
     <<"data", "TRT0", "TRT1", "24a15n30.trw">>, <<"data", "24a15n30.trw">>}

DefaultPath == <<"data", "TRT0", "24a15n30.trw">>

File(path, rec) == [path |-> path, rec |-> rec]

\* the lists of at most MaxFiles files: the first file has any of the
\* paths, the others the usual one
FileLists(recs) ==
    {<<>>}
    \cup UNION {
           {[j \in 1..n |-> IF j = 1 THEN File(p, r[1]) ELSE File(DefaultPath, r[j])] :
                p \in Paths, r \in [1..n -> recs]} : n \in 1..MaxFiles}

(***************************************************************************)
(* add_datasets.py.  A variable of the netCDF file is its data and its     *)
(* valid_min and valid_max attributes; a value never written is Masked,    *)
(* and valid_min starts as the text '<derived from file>'.  An operation   *)
(* gives the variable as it leaves it and the exception it raises, if any. *)
(***************************************************************************)
Masked == [cls |-> "masked", v |-> 0]

DerivedFromFile == Text(-1)

NewVariable(shape) ==
    [data |-> shape, valid_min |-> DerivedFromFile, valid_max |-> DerivedFromFile]

Outcome(var, e) == [var |-> var, exc |-> e]

Lt(a, b) == IsNum(a) /\ IsNum(b) /\ a.v < b.v

Numbers(xs) == {xs[j].v : j \in {n \in 1..Len(xs) : IsNum(xs[n])}}

SetMin(S) == CHOOSE x \in S : \A y \in S : x <= y

SetMax(S) == CHOOSE x \in S : \A y \in S : x >= y

\* np.nanmin, np.nanmax of a non-empty array: nan when every value is nan
NanMin(xs) == IF Numbers(xs) = {} THEN NaN ELSE Num(SetMin(Numbers(xs)))

NanMax(xs) == IF Numbers(xs) = {} THEN NaN ELSE Num(SetMax(Numbers(xs)))

\* np.min, np.max of a non-empty array: nan when any value is nan
NpMin(xs) == IF \E j \in 1..Len(xs) : ~ IsNum(xs[j]) THEN NaN ELSE NanMin(xs)

NpMax(xs) == IF \E j \in 1..Len(xs) : ~ IsNum(xs[j]) THEN NaN ELSE NanMax(xs)

\* type(ncfile[data_name].valid_min) != ncfile[data_name].datatype: the
\* attribute is still the text, or the values handed over are not of the
\* variable's datatype (typed is FALSE)
TypeDiffers(var, typed) == var.valid_min.cls = "str" \/ ~ typed

\* ncfile[data_name][...] = xs: xs of the length of the target, or of
\* length 1 (broadcast)
Fits(xs, target) == Len(xs) = Len(target) \/ Len(xs) = 1

Broadcast(xs, target) ==
    IF Len(xs) = Len(target) THEN xs ELSE [j \in 1..Len(target) |-> xs[1]]

\* add_datasets.py 8-34
add_1d_dataset_one_file_time(var, x, i, typed) ==
    LET upd == IF TypeDiffers(var, typed)
               THEN [var EXCEPT !.valid_min = x, !.valid_max = x]
               ELSE IF Lt(x, var.valid_min)
               THEN [var EXCEPT !.valid_min = x]
               ELSE IF Lt(var.valid_max, x)
               THEN [var EXCEPT !.valid_max = x]
               ELSE var
    IN  IF i >= Len(var.data)
        THEN Outcome(upd, IndexError)
        ELSE Outcome([upd EXCEPT !.data[i + 1] = x], None)

\* add_datasets.py 37-68: with valid_min set, 'elif data < valid_min'
\* takes the truth value of an array
add_1d_dataset_all_time_file(var, xs, typed) ==
    IF TypeDiffers(var, typed) /\ Len(xs) = 0
    THEN Outcome(var, ValueError("zero-size array", Unbound, 0))
    ELSE IF ~ TypeDiffers(var, typed) /\ Len(xs) > 1
    THEN Outcome(var, ValueError("truth value of an array", Unbound, 0))
    ELSE LET upd == IF TypeDiffers(var, typed)
                    THEN [var EXCEPT !.valid_min = NpMin(xs),
                                     !.valid_max = NpMax(xs)]
                    ELSE IF Len(xs) = 1 /\ Lt(xs[1], var.valid_min)
                    THEN [var EXCEPT !.valid_min = NpMin(xs)]
                    ELSE IF Len(xs) = 1 /\ Lt(var.valid_max, xs[1])
                    THEN [var EXCEPT !.valid_max = NpMax(xs)]
                    ELSE var
         IN  IF ~ Fits(xs, var.data)
             THEN Outcome(upd, ValueError("shape", Unbound, 0))
             ELSE Outcome([upd EXCEPT !.data = Broadcast(xs, var.data)], None)

\* add_datasets.py 71-97: a nan of the row is stored as _FillValue
add_2d_dataset(var, xs, i, typed) ==
    IF Len(xs) = 0
    THEN Outcome(var, ValueError("zero-size array", Unbound, 0))
    ELSE LET upd == IF TypeDiffers(var, typed)
                    THEN [var EXCEPT !.valid_min = NanMin(xs),
                                     !.valid_max = NanMax(xs)]
                    ELSE IF Lt(NanMin(xs), var.valid_min)
                    THEN [var EXCEPT !.valid_min = NanMin(xs)]
                    ELSE IF Lt(var.valid_max, NanMax(xs))
                    THEN [var EXCEPT !.valid_max = NanMax(xs)]
                    ELSE var
             row == [j \in 1..Len(xs) |-> IF xs[j] = NaN THEN Masked ELSE xs[j]]
         IN  IF i >= Len(var.data)
             THEN Outcome(upd, IndexError)
             ELSE IF ~ Fits(row, var.data[i + 1])
             THEN Outcome(upd, ValueError("shape", Unbound, 0))
             ELSE Outcome([upd EXCEPT !.data[i + 1] = Broadcast(row, var.data[i + 1])],
                          None)

\* the variables of the file that are dimensions other than time
DimensionNames == {"altitude", "latitude", "longitude"}

\* add_datasets.py 122: no data yet, valid_min is still the text or every
\* value is masked
NotPresent(var) ==
    \/ var.valid_min = DerivedFromFile
    \/ \A j \in 1..Len(var.data) : var.data[j] = Masked

\* a dimension variable written by every file, populated or not
add_dimension_Overwrite(var, x, scalar, i, typed) ==
    IF scalar
    THEN add_1d_dataset_one_file_time(var, x, 0, typed)
    ELSE add_1d_dataset_all_time_file(var, x, typed)

\* add_datasets.py 118-143: x is one value (scalar) or an array; a
\* populated variable is compared with x and left as it is
add_dimension(var, x, scalar, i, typed) ==
    IF NotPresent(var)
    THEN IF scalar
         THEN add_1d_dataset_one_file_time(var, x, i, typed)
         ELSE add_1d_dataset_all_time_file(var, x, typed)
    ELSE Outcome(var, None)

\* '__len__' not in dir(data[data_name]): all_data holds one value for
\* these and an array for the others (read_wp.py 1886-1919)
ScalarNames == {"time", "latitude", "longitude"}

\* add_datasets.py 100-170: the variable data_name after
\* add_dataset(ncfile, data_name, data, i)
add_dataset(v, data_name, d, i, typed) ==
    IF data_name = "time"
    THEN add_1d_dataset_one_file_time(v[data_name], d[data_name], i, typed)
    ELSE IF data_name \in DimensionNames
    THEN add_dimension(v[data_name], d[data_name], data_name \in ScalarNames, i, typed)
    ELSE add_2d_dataset(v[data_name], d[data_name], i, typed)

\* the keys of data that are variables of the file, in the order of the
\* dictionary
DataNames == <<"time", "altitude", "latitude", "longitude", "wind_speed">>

\* wind_profiler_netcdf.py 175-176: add_dataset for every key, up to the
\* first exception
RECURSIVE AddDatasets(_, _, _, _, _)
AddDatasets(v, names, d, i, typed) ==
    IF names = <<>> THEN [v |-> v, exc |-> None]
    ELSE LET o == add_dataset(v, Head(names), d, i, typed)
             w == [v EXCEPT ![Head(names)] = o.var]
         IN  IF o.exc # None THEN [v |-> w, exc |-> o.exc]
             ELSE AddDatasets(w, Tail(names), d, i, typed)

AttrNames == {"instrument_software_version", "averaging_interval", "sampling_interval"}

\* an attribute that takes the value of every file
SetAttrs_LastWins(attrs, file_attrs) == [a \in AttrNames |-> file_attrs[a]]

\* wind_profiler_netcdf.py 177-181: an empty attribute takes the value of
\* the file, any other is kept (a different value is only reported)
SetAttrs(attrs, file_attrs) ==
    [a \in AttrNames |-> IF attrs[a] = EmptyText THEN file_attrs[a] ELSE attrs[a]]

\* the time an attribute is formatted from
Timestamp(x) == [cls |-> "datetime", v |-> x.v]

NoTimestamp == [cls |-> "datetime", v |-> 0]

\* create_netcdf.py 109-200: the file as main_v2 leaves it
NewNcFile(time_length, alt_length) ==
    [exists |-> TRUE,
     dims |-> [time |-> time_length, altitude |-> alt_length],
     v |-> [time |-> NewVariable([j \in 1..time_length |-> Masked]),
            altitude |-> NewVariable([j \in 1..alt_length |-> Masked]),
            latitude |-> NewVariable(<<Masked>>),
            longitude |-> NewVariable(<<Masked>>),
            wind_speed |-> NewVariable([j \in 1..time_length |->
                                          [h \in 1..alt_length |-> Masked]])],
     attrs |-> [a \in AttrNames |-> EmptyText],
     time_coverage_start |-> NoTimestamp,
     time_coverage_end |-> NoTimestamp]

NoNcFile == [NewNcFile(0, 0) EXCEPT !.exists = FALSE]

\* wind_profiler_netcdf.main before it is called
NcIdle ==
    [pc |-> "idle", i |-> 0, date |-> 0, no_heights |-> 0, mode |-> "",
     typed |-> TRUE, ncfile |-> NoNcFile, exc |-> None]

\* make_netcdf_snr_winds before it is called
MkIdle ==
    [pc |-> "idle", i |-> 0, all_file_date |-> <<>>, all_unix_times |-> <<>>,
     altitude |-> [ndim |-> 0, rows |-> <<>>], latitude |-> <<>>,
     longitude |-> <<>>, created |-> FALSE, renamed |-> FALSE,
     dimension_lengths |-> [time |-> 0, altitude |-> 0],
     time_coverage_start |-> 0, time_coverage_end |-> 0, exc |-> None]

Init ==
    /\ all_trw_files = <<>>
    /\ nc = NcIdle
    /\ mk = MkIdle
    /\ \E m \in Markers, nh \in 0..MaxHeights, pre \in Preambles :
        \E sc \in Scenarios(m, nh, pre), n \in Lengths(m, nh, pre) :
            /\ n >= 0
            /\ (sc = {} \/ n >= LayoutLen(FloatOfVersion(VersionString(m)), nh, pre) - 1)
            /\ data = [len |-> n, patch |-> MkPatch(m, nh, sc, n, pre)]
            /\ filename \in Filenames
            /\ \/ filename = DefaultName
               \/ /\ m = 24
                  /\ nh = 0
                  /\ pre = DefaultPreamble
                  /\ sc = {}
                  /\ n = LayoutLen(749, 0, pre)
    /\ first = NotRun
    /\ variance_test \in BOOLEAN
    /\ pc = "filename"
    /\ read_pos = 0
    /\ loc = LocInit
    /\ arr = Zeros(0)
    /\ k = 0
    /\ ret = NoRecord
    /\ exc = None

(***************************************************************************)
(* The decoder, one action per section of main.                            *)
(***************************************************************************)
Raise(e) ==
    /\ pc' = "raised"
    /\ exc' = e
    /\ UNCHANGED <<all_trw_files, nc, mk, filename, first, data, variance_test, read_pos, loc, arr, k, ret>>

\* a heading size that takes bytes 4-5 from 20 on
HeadingSize_From20(d) == IF U16(d, 2) >= 20 THEN U16(d, 4) ELSE U16(d, 2)

\* read_wp.py 84-115: the date and time of the file name; every failure is
\* a ValueError, of the month check, of int() or of dt.datetime
ParseFilename ==
    /\ pc = "filename"
    /\ LET yy == IntOfChars(<<filename[1], filename[2]>>)
           month == MonthOrHour(filename[3])
           day == IntOfChars(<<filename[4], filename[5]>>)
           hour == MonthOrHour(filename[6])
           minutes == IntOfChars(<<filename[7], filename[8]>>)
       IN  IF yy = NotAnInt
           THEN Raise(ValueError("int", Unbound, 0))
           ELSE IF filename[3] \in DOMAIN letters_as_numbers /\ month > 12
           THEN Raise(ValueError("month", Num(month), 12))
           ELSE IF NotAnInt \in {month, day, hour, minutes}
           THEN Raise(ValueError("int", Unbound, 0))
           ELSE IF ~ ValidDateTime(2000 + yy, month, day, hour, minutes)
           THEN Raise(ValueError("datetime", Unbound, 0))
           ELSE /\ loc' = [loc EXCEPT
                             !.year = 2000 + yy, !.month = month, !.day = day,
                             !.hour = hour, !.minutes = minutes,
                             !.time_in_minutes_since_start_of_day =
                                 hour * 60 + minutes]
                /\ pc' = "preamble"
                /\ UNCHANGED <<all_trw_files, nc, mk, filename, first, data, variance_test, read_pos, arr, k,
                               ret, exc>>

\* read_wp.py 137-139
HeadingSize(d) == IF U16(d, 2) > 20 THEN U16(d, 4) ELSE U16(d, 2)

\* read_wp.py 135-173: the 24 bytes of the preamble
ReadPreamble ==
    /\ pc = "preamble"
    /\ IF data.len < 24
       THEN Raise(IndexError)
       ELSE /\ loc' = [loc EXCEPT
                          !.heading_size = HeadingSize(data),
                          !.header_type = Byte(data, 6),
                          !.version_no = U16(data, 8),
                          !.convert_version_no_uint = NegateUint16(U16(data, 8)),
                          !.start_date_unix = U32(data, 12),
                          !.m_TrtParametersize = U16(data, 22)]
            /\ pc' = "resolve"
            /\ UNCHANGED <<all_trw_files, nc, mk, filename, first, data, variance_test, read_pos, arr, k, ret, exc>>

\* read_wp.py 178-237: the version chain binds no name for an unlisted
\* marker, and float(operational_software_version) then fails
ResolveRevision ==
    /\ pc = "resolve"
    /\ LET s == VersionString(loc.convert_version_no_uint)
           V == FloatOfVersion(s)
       IN  IF s = "unbound"
           THEN Raise(UnboundLocalError("operational_software_version"))
           ELSE IF InitialReadPos(V) < 0
           THEN Raise(ValueError("program_version_no", Num(V), 0))
           ELSE /\ loc' = [loc EXCEPT !.operational_software_version = s,
                                      !.program_version_no = V]
                /\ read_pos' = InitialReadPos(V)
                /\ pc' = "corrections"
                /\ UNCHANGED <<all_trw_files, nc, mk, filename, first, data, variance_test, arr, k, ret, exc>>

\* read_wp.py 245-288
ReadCorrections ==
    /\ pc = "corrections"
    /\ LET V == loc.program_version_no
           dp == read_pos + ProcessingDurOffset(V)
       IN  IF data.len < read_pos + CorrectionsSize(V)
           THEN Raise(IndexError)
           ELSE /\ loc' = [loc EXCEPT
                             !.Processing_dur =
                                 IF V < 331 THEN Num(U16(data, dp)) ELSE F32(data, dp),
                             !.Lag_between_processing =
                                 U16(data, dp + ProcessingDurWidth(V))]
                /\ read_pos' = read_pos + CorrectionsSize(V)
                /\ pc' = "seek_geometry"
                /\ UNCHANGED <<all_trw_files, nc, mk, filename, first, data, variance_test, arr, k, ret, exc>>

\* read_wp.py 296-304: the cursor is put where the geometry block is read
SeekGeometry ==
    /\ pc = "seek_geometry"
    /\ read_pos' = GeometryPos(loc.program_version_no, read_pos)
    /\ pc' = "geometry"
    /\ UNCHANGED <<all_trw_files, nc, mk, filename, first, data, variance_test, loc, arr, k, ret, exc>>

\* read_wp.py 313-411
ReadGeometry ==
    /\ pc = "geometry"
    /\ LET V == loc.program_version_no
       IN  IF data.len < read_pos + GeometryExtent(V)
           THEN Raise(IndexError)
           ELSE /\ read_pos' = read_pos + GeometrySize(V)
                /\ pc' = "seek_profile"
                /\ UNCHANGED <<all_trw_files, nc, mk, filename, first, data, variance_test, loc, arr, k, ret, exc>>

\* read_wp.py 420-448: the per-version position is overwritten at once by
\* m_TrtParametersize + heading_size + 2
SeekProfile ==
    /\ pc = "seek_profile"
    /\ read_pos' = ProfileStart(loc.m_TrtParametersize, loc.heading_size)
    /\ pc' = "profile_header"
    /\ UNCHANGED <<all_trw_files, nc, mk, filename, first, data, variance_test, loc, arr, k, ret, exc>>

\* read_wp.py 451-542
ReadProfileHeader ==
    /\ pc = "profile_header"
    /\ LET V == loc.program_version_no
           ps == read_pos
           np == ps + NoHeightsOffset(V)
       IN  IF data.len < ps + ProfileHeaderSize(V)
           THEN Raise(IndexError)
           ELSE /\ loc' = [loc EXCEPT !.no_heights = U16(data, np),
                                      !.min_height = F32(data, np + 2),
                                      !.height_increment = F32(data, np + 6)]
                /\ read_pos' = ps + ProfileHeaderSize(V)
                /\ pc' = "site"
                /\ UNCHANGED <<all_trw_files, nc, mk, filename, first, data, variance_test, arr, k, ret, exc>>

\* read_wp.py 547-582
ReadSite ==
    /\ pc = "site"
    /\ IF data.len < read_pos + SiteSize
       THEN Raise(IndexError)
       ELSE /\ loc' = [loc EXCEPT
                          !.latitude_file = F32(data, read_pos + LatitudeOffset),
                          !.longitude_file = F32(data, read_pos + LatitudeOffset + 4),
                          !.altitude_site = F32(data, read_pos + LatitudeOffset + 8)]
            /\ read_pos' = read_pos + SiteSize
            /\ pc' = "telemetry"
            /\ UNCHANGED <<all_trw_files, nc, mk, filename, first, data, variance_test, arr, k, ret, exc>>

\* read_wp.py 585-680
ReadTelemetry ==
    /\ pc = "telemetry"
    /\ LET V == loc.program_version_no
       IN  IF data.len < read_pos + TelemetrySize(V)
           THEN Raise(IndexError)
           ELSE /\ loc' = [loc EXCEPT
                             !.voltage1 =
                                 IF HasElectrical(V)
                                 THEN Num(I32(data, read_pos + VoltageOffset(V)))
                                 ELSE Unbound,
                             !.rain_detection =
                                 IF HasRainDetection(V)
                                 THEN Num(I32(data, read_pos + RainDetectionOffset(V)))
                                 ELSE Unbound,
                             !.current =
                                 IF HasElectrical(V)
                                 THEN F32(data, read_pos + CurrentOffset(V))
                                 ELSE Unbound,
                             !.shelter_temp =
                                 IF HasShelterTemp(V)
                                 THEN F32(data, read_pos + CurrentOffset(V) + 4)
                                 ELSE Unbound]
                /\ read_pos' = read_pos + TelemetrySize(V)
                /\ pc' = "calibration"
                /\ UNCHANGED <<all_trw_files, nc, mk, filename, first, data, variance_test, arr, k, ret, exc>>

\* read_wp.py 688-918: calibration terms, then the zeroed per-gate arrays
ReadCalibration ==
    /\ pc = "calibration"
    /\ LET V == loc.program_version_no
       IN  IF data.len < read_pos + CalibrationSize(V)
           THEN Raise(IndexError)
           ELSE /\ read_pos' = read_pos + CalibrationSize(V)
                /\ arr' = Zeros(loc.no_heights)
                /\ k' = 0
                /\ pc' = "gates"
                /\ UNCHANGED <<all_trw_files, nc, mk, filename, first, data, variance_test, loc, ret, exc>>

\* read_wp.py 920-1775: one iteration of the loop over heights
ReadGate ==
    /\ pc = "gates"
    /\ k < loc.no_heights
    /\ LET V == loc.program_version_no
           g == GateValues(data, read_pos, V, variance_test)
           e == GateException(data, read_pos, V, variance_test)
       IN  IF e # None
           THEN Raise(e)
           ELSE /\ arr' = [a \in DOMAIN arr |->
                             IF a = "altitude"
                             THEN [arr[a] EXCEPT ![k + 1] =
                                     Altitude(loc.min_height, loc.height_increment, k)]
                             ELSE [arr[a] EXCEPT ![k + 1] = g[a]]]
                /\ read_pos' = read_pos + GateSize(V, variance_test)
                /\ k' = k + 1
                /\ UNCHANGED <<all_trw_files, nc, mk, filename, first, data, variance_test, pc, loc, ret, exc>>

\* read_wp.py 1886-1919
all_data ==
    [time |-> loc.start_date_unix,
     altitude |-> arr["altitude"],
     latitude |-> loc.latitude_file,
     longitude |-> loc.longitude_file,
     time_minutes_since_start_of_day |-> loc.time_in_minutes_since_start_of_day,
     size_of_gate |-> loc.height_increment,
     qc_flag_rain_detected |-> Num(loc.rain_detection.v + 1),
     wind_speed |-> arr["wp_windspeed"],
     wind_from_direction |-> arr["wp_winddir"],
     eastward_wind |-> arr["u_east"],
     northward_wind |-> arr["v_north"],
     upward_air_velocity |-> arr["w_vert"],
     signal_to_noise_ratio_of_beam_1 |-> arr["SNR_1"],
     signal_to_noise_ratio_of_beam_2 |-> arr["SNR_2"],
     signal_to_noise_ratio_of_beam_3 |-> arr["SNR_3"],
     signal_to_noise_ratio_minimum |-> arr["SNR_min"],
     spectral_width_of_beam_1 |-> arr["width_1"],
     spectral_width_of_beam_2 |-> arr["width_2"],
     spectral_width_of_beam_3 |-> arr["width_3"],
     skew_of_beam_1 |-> arr["skew_1"],
     skew_of_beam_2 |-> arr["skew_2"],
     skew_of_beam_3 |-> arr["skew_3"],
     qc_flag_wind |-> arr["qc_flag_wind"],
     qc_flag_beam_1 |-> arr["qc_flag_beam_1"],
     qc_flag_beam_2 |-> arr["qc_flag_beam_2"],
     qc_flag_beam_3 |-> arr["qc_flag_beam_3"],
     year |-> loc.year,
     month |-> loc.month,
     day |-> loc.day,
     hour |-> loc.hour,
     minute |-> loc.minutes]

\* read_wp.py 1921-1926
all_attrs ==
    [instrument_software_version |-> loc.operational_software_version,
     averaging_interval |-> loc.Processing_dur,
     sampling_interval |-> loc.Lag_between_processing]

\* read_wp.py 1886-1928: rain_detection + 1 needs rain_detection bound
Return ==
    /\ pc = "gates"
    /\ k = loc.no_heights
    /\ IF loc.rain_detection = Unbound
       THEN Raise(UnboundLocalError("rain_detection"))
       ELSE /\ ret' = [returned |-> TRUE, all_data |-> all_data,
                       all_attrs |-> all_attrs]
            /\ pc' = "done"
            /\ UNCHANGED <<all_trw_files, nc, mk, filename, first, data, variance_test, read_pos, loc, arr, k, exc>>

\* variant: the first call leaves the buffer read to its end
DecodeAgain_Consumed ==
    /\ pc \in {"done", "raised"}
    /\ ~ first.ran
    /\ first' = [ran |-> TRUE, ret |-> ret, exc |-> exc, data |-> data]
    /\ data' = [data EXCEPT !.len = 0]
    /\ pc' = "filename"
    /\ read_pos' = 0
    /\ loc' = LocInit
    /\ arr' = Zeros(0)
    /\ k' = 0
    /\ ret' = NoRecord
    /\ exc' = None
    /\ UNCHANGED <<all_trw_files, nc, mk, filename, variance_test>>

\* a second call of main on the same file name and bytes, after the first
\* has returned or raised
DecodeAgain ==
    /\ pc \in {"done", "raised"}
    /\ ~ first.ran
    /\ first' = [ran |-> TRUE, ret |-> ret, exc |-> exc, data |-> data]
    /\ pc' = "filename"
    /\ read_pos' = 0
    /\ loc' = LocInit
    /\ arr' = Zeros(0)
    /\ k' = 0
    /\ ret' = NoRecord
    /\ exc' = None
    /\ UNCHANGED <<all_trw_files, nc, mk, filename, data, variance_test>>

Next ==
    \/ ParseFilename
    \/ ReadPreamble
    \/ ResolveRevision
    \/ ReadCorrections
    \/ SeekGeometry
    \/ ReadGeometry
    \/ SeekProfile
    \/ ReadProfileHeader
    \/ ReadSite
    \/ ReadTelemetry
    \/ ReadCalibration
    \/ ReadGate
    \/ Return

Spec == Init /\ [][Next]_vars

NextTwice == Next \/ DecodeAgain

SpecTwice == Init /\ [][NextTwice]_vars

(***************************************************************************)
(* Properties.  The file side of each property is read from the bytes of   *)
(* data with the tables below.                                             *)
(***************************************************************************)
\* standard two's complement readings of the bytes at p, the reference for signed fields
TwosComplement16(d, p) ==
    LET bits == U16(d, p)
    IN  IF bits < 32768 THEN bits ELSE bits - 65536

TwosComplement32(d, p) ==
    IF SignBit32(d, p) = 0 THEN Low31(d, p)
    ELSE (Low31(d, p) - 2147483647) - 1

RevisionTable ==
    (5 :> "1.2") @@ (6 :> "2.0") @@ (7 :> "2.1") @@ (8 :> "2.2")
    @@ (10 :> "3.31") @@ (11 :> "5.34") @@ (13 :> "5.36") @@ (14 :> "5.37")
    @@ (16 :> "5.39") @@ (19 :> "5.43") @@ (21 :> "5.45") @@ (22 :> "7.47")
    @@ (24 :> "7.49")

RevisionNumber ==
    (5 :> 120) @@ (6 :> 200) @@ (7 :> 210) @@ (8 :> 220)
    @@ (10 :> 331) @@ (11 :> 534) @@ (13 :> 536) @@ (14 :> 537)
    @@ (16 :> 539) @@ (19 :> 543) @@ (21 :> 545) @@ (22 :> 747)
    @@ (24 :> 749)

FileMarker == (65536 - (Byte(data, 8) + 256 * Byte(data, 9))) % 65536

KnownFile == data.len >= 24 /\ FileMarker \in DOMAIN RevisionTable

FileVersion == RevisionNumber[FileMarker]

\* the heading size and the start of the profile header, as the file
\* declares them
FileHeadingSize ==
    IF Byte(data, 2) + 256 * Byte(data, 3) <= 20
    THEN Byte(data, 2) + 256 * Byte(data, 3)
    ELSE Byte(data, 4) + 256 * Byte(data, 5)

FileProfileStart == (Byte(data, 22) + 256 * Byte(data, 23)) + FileHeadingSize + 2

FileSiteStart(V) == FileProfileStart + ProfileHeaderSize(V)

FileGateStart(V, g) ==
    FileSiteStart(V) + SiteSize + TelemetrySize(V) + CalibrationSize(V)
    + g * GateSize(V, TRUE)

FileLen(V, nh) == FileGateStart(V, nh)

FileNoHeights == U16(data, FileProfileStart + NoHeightsOffset(FileVersion))

Decoding == pc \in {"gates", "done"}

\* the decode stopped at the file name
FilenameRejected == pc = "raised" /\ exc.name \in {"int", "month", "datetime"}

PastResolve ==
    pc \in {"corrections", "seek_geometry", "geometry", "seek_profile",
            "profile_header", "site", "telemetry", "calibration", "gates",
            "done"}

\* where the decoder starts gate g (0-based) under the option in force
DecodedGateStart(g) ==
    FileGateStart(FileVersion, 0) + g * GateSize(FileVersion, variance_test)

PerGateOutputs ==
    {"altitude", "wind_speed", "wind_from_direction", "eastward_wind",
     "northward_wind", "upward_air_velocity",
     "signal_to_noise_ratio_of_beam_1", "signal_to_noise_ratio_of_beam_2",
     "signal_to_noise_ratio_of_beam_3", "signal_to_noise_ratio_minimum",
     "spectral_width_of_beam_1", "spectral_width_of_beam_2",
     "spectral_width_of_beam_3", "skew_of_beam_1", "skew_of_beam_2",
     "skew_of_beam_3", "qc_flag_wind", "qc_flag_beam_1", "qc_flag_beam_2",
     "qc_flag_beam_3"}

\* C1: the revision is table[(2^16 - v) mod 2^16] for the little-endian
\* 16-bit v at bytes 8-9; a known marker always resolves, and the resolved
\* revision is the program version that drives the layout and the
\* instrument_software_version of the returned attributes.
C1_RevisionFromMarker ==
    /\ loc.operational_software_version # "unbound"
         => /\ KnownFile
            /\ loc.operational_software_version = RevisionTable[FileMarker]
            /\ loc.program_version_no = RevisionNumber[FileMarker]
    /\ PastResolve => loc.operational_software_version # "unbound"
    /\ (pc = "raised" /\ exc.name = "operational_software_version") => ~ KnownFile
    /\ ret.returned
         => ret.all_attrs.instrument_software_version = RevisionTable[FileMarker]

C1_Witness ==
    /\ ret.returned
    /\ FileMarker = 24
    /\ ret.all_attrs.instrument_software_version = "7.49"

\* C2: an unlisted marker makes decode fail with an error that carries the
\* marker, and no record is returned.
C2_UnknownMarkerIdentified ==
    (data.len >= 24 /\ FileMarker \notin DOMAIN RevisionTable)
        => /\ ~ PastResolve
           /\ ~ ret.returned
           /\ pc = "raised" => exc.value = Num(FileMarker)

\* C3: every signed field is the two's complement reading of its bytes
\* (rain detection, the three validation codes and the overall validation
\* of every decoded gate).
C3_SignedTwosComplement ==
    /\ loc.rain_detection # Unbound
         => loc.rain_detection.v =
              TwosComplement32(data, FileSiteStart(FileVersion) + SiteSize
                                     + RainDetectionOffset(FileVersion))
    /\ Decoding
         => \A i \in 1..k :
              LET vp == ValidationPos(DecodedGateStart(i - 1), FileVersion,
                                      variance_test)
              IN  /\ arr["validation_1"][i] = TwosComplement32(data, vp)
                  /\ arr["validation_2"][i] = TwosComplement32(data, vp + 4)
                  /\ arr["validation_3"][i] = TwosComplement32(data, vp + 8)
                  /\ arr["overall_validation"][i] = TwosComplement32(data, vp + 24)

\* the bytes the decoder reads for the header and the declared gates
C4_Required ==
    IF FileNoHeights = 0 THEN FileGateStart(FileVersion, 0)
    ELSE DecodedGateStart(FileNoHeights - 1)
         + GateReadExtent(FileVersion, variance_test)

C4_Short == KnownFile /\ data.len < C4_Required

FileRainDetection ==
    I32(data, FileSiteStart(FileVersion) + SiteSize + RainDetectionOffset(FileVersion))

\* a file of a known revision, whole, whose gates pass the range checks
C5_Conforming ==
    /\ KnownFile
    /\ data.len >= FileLen(FileVersion, FileNoHeights)
    /\ \A g \in 0..(FileNoHeights - 1) :
         GateCheck(data, FileGateStart(FileVersion, g), FileVersion, TRUE) = None

\* C5: for each of the thirteen revisions a conforming file is decoded to a
\* record (decode does not raise), and the record's qc_flag_rain_detected is
\* the raw rain-detection code plus one.
C5_EveryRevisionReturns ==
    C5_Conforming
        => /\ pc # "raised"
           /\ ret.returned
                => ret.all_data.qc_flag_rain_detected = Num(FileRainDetection + 1)

\* the processing parameters of gate g of the file, as the instrument wrote
\* them (two's complement for the 16-bit fields)
FileDureeTooLong(g) ==
    LET pp == ProcessingPos(FileGateStart(FileVersion, g), FileVersion, TRUE)
    IN  IF FileVersion > 300 THEN DureeTooLong(F32(data, pp))
        ELSE TwosComplement16(data, pp) > 120

FileDecalage(g) ==
    TwosComplement16(data, ProcessingPos(FileGateStart(FileVersion, g),
                                         FileVersion, TRUE)
                           + DureeWidth(FileVersion))

\* C6: a file with m_dureeTraitment above 120 or m_DecalageTraitment outside
\* 0..60 is rejected: no gate that holds such a value is accepted, and the
\* ValueError names the field, its value and the bound.
C6_OutOfRangeRejected ==
    /\ (variance_test /\ Decoding /\ FileVersion > 120)
         => \A g \in 0..(k - 1) :
              /\ ~ FileDureeTooLong(g)
              /\ FileDecalage(g) >= 0
              /\ FileDecalage(g) <= 60
    /\ (pc = "raised" /\ exc.type = "ValueError")
         => \/ exc.name = "m_dureeTraitment" /\ exc.bound = 120
            \/ exc.name = "m_DecalageTraitment" /\ exc.bound \in {0, 60}

\* the raw validation code of beam b (1..3) at decoded gate i (1-based)
RawValidation(i, b) ==
    TwosComplement32(data, ValidationPos(DecodedGateStart(i - 1), FileVersion,
                                         variance_test) + 4 * (b - 1))

FlagOf(code) == IF code = 1 THEN 1 ELSE 3

\* C7: every beam flag is 1 when the raw validation code of that beam and
\* gate is exactly 1 and 3 otherwise, in the arrays being filled and in the
\* returned record.
C7_BeamFlags ==
    /\ Decoding
         => \A i \in 1..k :
              /\ arr["qc_flag_beam_1"][i] = FlagOf(RawValidation(i, 1))
              /\ arr["qc_flag_beam_2"][i] = FlagOf(RawValidation(i, 2))
              /\ arr["qc_flag_beam_3"][i] = FlagOf(RawValidation(i, 3))
    /\ ret.returned
         => \A i \in 1..FileNoHeights :
              /\ ret.all_data.qc_flag_beam_1[i] = FlagOf(RawValidation(i, 1))
              /\ ret.all_data.qc_flag_beam_2[i] = FlagOf(RawValidation(i, 2))
              /\ ret.all_data.qc_flag_beam_3[i] = FlagOf(RawValidation(i, 3))

C7_Witness ==
    /\ ret.returned
    /\ \E i \in 1..FileNoHeights :
         /\ RawValidation(i, 2) = 1
         /\ ret.all_data.qc_flag_beam_2[i] = 1
         /\ RawValidation(i, 1) = 0
         /\ ret.all_data.qc_flag_beam_1[i] = 3

\* C8: no output field of a returned record holds 999999, scalar or per-gate.
C8_NoSentinelInRecord ==
    ret.returned
        => /\ ret.all_data.latitude # Num(999999)
           /\ ret.all_data.longitude # Num(999999)
           /\ ret.all_data.size_of_gate # Num(999999)
           /\ \A f \in PerGateOutputs \ {"qc_flag_wind", "qc_flag_beam_1",
                                         "qc_flag_beam_2", "qc_flag_beam_3"} :
                \A i \in 1..FileNoHeights : ret.all_data[f][i] # Num(999999)

\* C9 as stated: u_east 3.0 and v_north 4.0 give speed 5.0 and direction
\* atan(-3/-4) = 36.87 degrees, without the +180 correction.
C9_NoQuadrantFix ==
    Decoding
        => \A i \in 1..k :
             (arr["u_east"][i] = Num(3) /\ arr["v_north"][i] = Num(4))
                 => /\ arr["wp_windspeed"][i] = Num(500)
                    /\ arr["wp_winddir"][i] = Num(3687)

\* C9 amended: u_east 3.0 and v_north 4.0 give speed 5.0 and direction
\* 36.87 + 180 = 216.87 degrees: u > 0, v > 0 and 36.87 < 90, so the +180
\* correction applies.
C9_QuadrantFixApplies ==
    Decoding
        => \A i \in 1..k :
             (arr["u_east"][i] = Num(3) /\ arr["v_north"][i] = Num(4))
                 => /\ arr["wp_windspeed"][i] = Num(500)
                    /\ arr["wp_winddir"][i] = Num(21687)
                    /\ ret.returned
                         => /\ ret.all_data.wind_speed[i] = Num(500)
                            /\ ret.all_data.wind_from_direction[i] = Num(21687)

C9_Witness ==
    /\ ret.returned
    /\ \E i \in 1..FileNoHeights :
         /\ F32(data, DecodedGateStart(i - 1)) = Num(3)
         /\ F32(data, DecodedGateStart(i - 1) + 4) = Num(4)
         /\ ret.all_data.eastward_wind[i] = Num(3)
         /\ ret.all_data.northward_wind[i] = Num(4)

FileMinHeight == F32(data, FileProfileStart + NoHeightsOffset(FileVersion) + 2)

FileHeightIncrement == F32(data, FileProfileStart + NoHeightsOffset(FileVersion) + 6)

\* C10: every per-gate sequence of a returned record has length no_heights
\* and altitude[k] = min_height + k * height_increment for k in
\* 0..no_heights-1.
C10_LengthsAndAltitude ==
    ret.returned
        => /\ \A f \in PerGateOutputs : Len(ret.all_data[f]) = FileNoHeights
           /\ \A i \in 1..FileNoHeights :
                ret.all_data.altitude[i] =
                    Num(FileMinHeight.v + (i - 1) * FileHeightIncrement.v)

C10_Witness ==
    /\ ret.returned
    /\ FileNoHeights = 2
    /\ Len(ret.all_data.altitude) = 2
    /\ ret.all_data.altitude[1] = Num(100)
    /\ ret.all_data.altitude[2] = Num(175)

\* C11: from one step of a decode to the next the read position never
\* decreases, and a gate is read only when its bytes lie inside the buffer.
C11_CursorMonotonic ==
    [][/\ read_pos' >= read_pos
       /\ (pc = "gates" /\ k' = k + 1)
            => read_pos + GateReadExtent(loc.program_version_no, variance_test)
                   <= data.len]_vars

\* the widths walked from the profile header to the first gate
HeaderWidths(V) ==
    ProfileHeaderSize(V) + SiteSize + TelemetrySize(V) + CalibrationSize(V)

\* C12: at completion the read position is the start of the profile header
\* plus the header widths plus no_heights gate widths, and no block is read
\* at bytes that were decoded before it: the geometry block starts at or
\* after the end of the corrections block, and the profile header at or
\* after the end of the geometry block.
C12_NoGapsNoOverlaps ==
    /\ (pc = "done" \/ (pc = "gates" /\ k = loc.no_heights))
         => read_pos = FileProfileStart + HeaderWidths(FileVersion)
                       + FileNoHeights * GateSize(FileVersion, variance_test)
    /\ pc = "geometry"
         => read_pos >= InitialReadPos(FileVersion) + CorrectionsSize(FileVersion)
    /\ pc = "profile_header"
         => read_pos >= GeometryPos(FileVersion, InitialReadPos(FileVersion)
                                                + CorrectionsSize(FileVersion))
                        + GeometrySize(FileVersion)

PastTelemetry == pc \in {"calibration", "gates", "done"}

FileTelemetryStart == FileSiteStart(FileVersion) + SiteSize

\* the bytes of the telemetry block of revision V without rain detection
\* and shelter temperature: time difference and dlst, a gap, the nine
\* electrical words, the sun block and rain_junk
TelemetryOther(V) ==
    (IF V \in {120, 200} THEN 0 ELSE 4)
    + (IF V = 120 THEN 0 ELSE 4)
    + (IF V \in {120, 200, 210, 220} THEN 0 ELSE 9 * 4)
    + (IF V \in {120, 200, 210, 220, 331} THEN 2
       ELSE IF V \in {534, 536, 537, 539} THEN 18 ELSE 30)
    + 4

\* C14 as stated: rain detection and shelter temperature are read exactly
\* for the revisions at or above 5.43.
C14_ReadFrom543 ==
    PastTelemetry
        => /\ loc.rain_detection # Unbound <=> FileVersion >= 543
           /\ loc.shelter_temp # Unbound <=> FileVersion >= 543

\* C14 amended: rain detection and shelter temperature are read exactly for
\* the revisions above 5.43 (5.45, 7.47, 7.49), four bytes each, and take
\* no bytes for 5.43 and every earlier revision.
C14_ReadAbove543 ==
    /\ PastTelemetry
         => /\ loc.rain_detection # Unbound <=> FileVersion \in {545, 747, 749}
            /\ loc.shelter_temp # Unbound <=> FileVersion \in {545, 747, 749}
            /\ FileVersion \in {545, 747, 749}
                 => /\ loc.rain_detection = Num(I32(data, FileTelemetryStart + 36))
                    /\ loc.shelter_temp = F32(data, FileTelemetryStart + 48)
    /\ pc = "calibration"
         => read_pos - FileTelemetryStart
                = TelemetryOther(FileVersion)
                  + (IF FileVersion \in {545, 747, 749} THEN 8 ELSE 0)

C14_Witness ==
    /\ pc = "calibration"
    /\ FileVersion = 545
    /\ I32(data, FileTelemetryStart + 36) = 1
    /\ loc.rain_detection = Num(1)
    /\ read_pos - FileTelemetryStart = TelemetryOther(545) + 8

\* the bytes the geometry block of revision V walks when 5.39 has the gap
GeometryWithGapAt539(V) ==
    IF V < 539 THEN 3 * (2 + 2 + 2)
    ELSE IF V < 543 THEN 2 + 5 * 2 + 4 + 5 * 2 + 5 * 2 + 2
    ELSE 4 + 5 * 4 + 4 + 5 * 2 + 5 * 2 + 2

\* C15 as stated: 3 vectors of 16 bits before 5.39, 5 vectors of 16 bits
\* and the alignment gap from 5.39 up to 5.43 (5.39 steps over the gap),
\* 5 vectors of 32 bits from 5.43 on.
C15_GapAt539 ==
    [][(pc = "geometry" /\ pc' = "seek_profile")
          => read_pos' - read_pos = GeometryWithGapAt539(FileVersion)]_vars

\* the bytes the geometry block of revision V walks
GeometryWalk(V) ==
    IF V < 539 THEN 3 * (2 + 2 + 2)
    ELSE IF V = 539 THEN 2 + 5 * 2 + 5 * 2 + 5 * 2
    ELSE 4 + 5 * 4 + 4 + 5 * 2 + 5 * 2 + 2

\* C15 amended: 3 vectors of 16 bits before 5.39; for 5.39 a 16-bit count
\* and 5 vectors of 16 bits with no gap (the gap is stepped over only by
\* revisions above 5.39 and below 5.43, and no known revision is one); from
\* 5.43 on a count and 5 vectors advanced by 32 bits, a 4-byte gap, and a
\* 2-byte gap at the end.
C15_NoGapAt539 ==
    [][(pc = "geometry" /\ pc' = "seek_profile")
          => read_pos' - read_pos = GeometryWalk(FileVersion)]_vars

C15_Witness ==
    /\ pc = "seek_profile"
    /\ FileVersion = 539
    /\ read_pos = GeometryPos(539, 0) + 32

\* C16 as stated: the electrical fields are decoded for 2.0 and every later
\* revision and are absent for 1.2.
C16_ElectricalFrom20 ==
    PastTelemetry
        => /\ loc.voltage1 # Unbound <=> FileVersion >= 200
           /\ loc.current # Unbound <=> FileVersion >= 200

\* C16 amended: the electrical fields are decoded for the revisions at or
\* above 3.1 (3.31 and later) and are absent for 1.2, 2.0, 2.1 and 2.2,
\* where the block is the 4-byte gap alone.
C16_ElectricalFrom31 ==
    /\ PastTelemetry
         => /\ loc.voltage1 # Unbound <=> FileVersion >= 331
            /\ loc.current # Unbound <=> FileVersion >= 331
            /\ FileVersion >= 331
                 => loc.voltage1 = Num(I32(data, FileTelemetryStart + 8))
    /\ (pc = "calibration" /\ FileVersion \in {200, 210, 220})
         => read_pos - FileTelemetryStart
                = (IF FileVersion = 200 THEN 0 ELSE 4) + 4 + 2 + 4

C16_Witness ==
    /\ pc = "calibration"
    /\ FileVersion = 220
    /\ I32(data, FileTelemetryStart + 8) = 1
    /\ loc.voltage1 = Unbound
    /\ loc.current = Unbound

FileParameterTableSize == Byte(data, 22) + 256 * Byte(data, 23)

\* C17 as stated: from 5.43 on the geometry block is read at a position
\* computed from m_TrtParametersize and heading_size, so a file whose sizes
\* differ from those of the usual file is read at another offset than the
\* usual file of its revision.
C17_GeometryFollowsParameterTable ==
    (/\ pc = "geometry"
     /\ FileVersion >= 543
     /\ \/ FileParameterTableSize # FileParameterSize
        \/ FileHeadingSize # FileHeading)
        => read_pos # (IF FileVersion = 543 THEN 384 ELSE 420)

\* C17 amended: from 5.43 on the geometry block is read at a fixed offset,
\* 384 for 5.43 and 420 for the later revisions, whatever the file's
\* m_TrtParametersize and heading_size; the position computed from them,
\* m_TrtParametersize + heading_size + 2, is that of the profile header
\* read after the geometry block.
C17_GeometryAtFixedOffset ==
    /\ (pc = "geometry" /\ FileVersion >= 543)
         => read_pos = (IF FileVersion = 543 THEN 384 ELSE 420)
    /\ pc = "profile_header"
         => read_pos = FileParameterTableSize + FileHeadingSize + 2

C17_Witness ==
    /\ pc = "geometry"
    /\ FileVersion = 749
    /\ FileParameterTableSize = FileParameterSize + 4
    /\ read_pos = 420

\* the floats of the three revision-gated blocks at the end of a gate
FiveBeamFloats(V) ==
    IF V \in {545, 747, 749} THEN 12
    ELSE IF V \in {536, 537, 539, 543} THEN 8
    ELSE 0

CorrectedFloats(V) == IF V \in {543, 545, 747, 749} THEN 18 ELSE 0

DisplayColourFloats(V) == IF V \in {747, 749} THEN 3 ELSE 0

\* the bytes of a gate before those blocks: sixteen core floats, the
\* variance block as the option has it read or stepped over, seven
\* validation and SNR words, the processing parameters and the measures
GateBeforeBlocks(V, vt) ==
    16 * 4 + VarianceSize(V, vt) + 7 * 4 + ProcessingSize(V) + MeasureSize(V)

\* C18: every gate of every revision has the core fields read from the
\* start of the gate and the validation codes, SNRs and overall validation
\* after the variance block; the gate then ends with 12 five-beam floats
\* for revisions >= 5.45, 8 for >= 5.36 and < 5.45 and none below, 18
\* corrected-velocity floats exactly for >= 5.43 and 3 display-colour
\* floats exactly for revisions above 5.45.
C18_GateBlocks ==
    Decoding
        => /\ read_pos = FileGateStart(FileVersion, 0)
                         + k * (GateBeforeBlocks(FileVersion, variance_test)
                                + 4 * (FiveBeamFloats(FileVersion)
                                       + CorrectedFloats(FileVersion)
                                       + DisplayColourFloats(FileVersion)))
           /\ \A i \in 1..k :
                LET p == FileGateStart(FileVersion, 0)
                         + (i - 1) * (GateBeforeBlocks(FileVersion, variance_test)
                                      + 4 * (FiveBeamFloats(FileVersion)
                                             + CorrectedFloats(FileVersion)
                                             + DisplayColourFloats(FileVersion)))
                    vp == p + 16 * 4 + VarianceSize(FileVersion, variance_test)
                IN  /\ arr["u_east"][i] = MapSentinel(F32(data, p))
                    /\ arr["v_north"][i] = MapSentinel(F32(data, p + 4))
                    /\ arr["w_vert"][i] = MapSentinel(F32(data, p + 8))
                    /\ arr["validation_1"][i] = I32(data, vp)
                    /\ arr["validation_2"][i] = I32(data, vp + 4)
                    /\ arr["validation_3"][i] = I32(data, vp + 8)
                    /\ arr["SNR_1"][i] = MapSentinel(F32(data, vp + 12))
                    /\ arr["overall_validation"][i] = I32(data, vp + 24)

C18_Witness ==
    /\ pc = "gates"
    /\ FileVersion = 543
    /\ k = 2
    /\ arr["u_east"][2] = Num(3)
    /\ read_pos = FileGateStart(543, 0)
                  + 2 * (GateBeforeBlocks(543, variance_test) + 4 * (8 + 18))

\* C19: heading_size is the little-endian 16-bit value at bytes 2-3 when
\* that value is at most 20 and the one at bytes 4-5 otherwise, and the
\* header type is byte 6 as it stands; the heading size so found is the one
\* the profile header is positioned with.
C19_HeadingSize ==
    /\ (pc \notin {"filename", "preamble"} /\ ~ FilenameRejected /\ data.len >= 24)
         => /\ loc.heading_size = FileHeadingSize
            /\ loc.header_type = Byte(data, 6)
    /\ pc = "profile_header"
         => read_pos = FileParameterTableSize + FileHeadingSize + 2

C19_Witness ==
    /\ pc = "profile_header"
    /\ Byte(data, 2) + 256 * Byte(data, 3) = 300
    /\ loc.heading_size = 30
    /\ loc.header_type = 255

\* a file whose bytes 2-3 hold exactly 20
C19_WitnessTwenty ==
    /\ pc = "profile_header"
    /\ Byte(data, 2) + 256 * Byte(data, 3) = 20
    /\ loc.heading_size = 20

CharValue ==
    ("0" :> 0) @@ ("1" :> 1) @@ ("2" :> 2) @@ ("3" :> 3) @@ ("4" :> 4)
    @@ ("5" :> 5) @@ ("6" :> 6) @@ ("7" :> 7) @@ ("8" :> 8) @@ ("9" :> 9)
    @@ ("a" :> 10) @@ ("b" :> 11) @@ ("c" :> 12) @@ ("d" :> 13)
    @@ ("e" :> 14) @@ ("f" :> 15) @@ ("g" :> 16) @@ ("h" :> 17)
    @@ ("i" :> 18) @@ ("j" :> 19) @@ ("k" :> 20) @@ ("l" :> 21)
    @@ ("m" :> 22) @@ ("n" :> 23)

FilenameAccepted == pc # "filename" /\ ~ FilenameRejected

\* C20: in a name YYMDDHMM the month and hour characters 0-9 stand for
\* themselves and a-n for 10-23; a month letter above 12 is rejected with
\* ValueError; an accepted name has month in 1..12 and hour in 0..23, and
\* the month, hour and minute of the record are those of the name.
C20_FilenameTimestamp ==
    /\ FilenameAccepted
         => /\ filename[3] \in DOMAIN CharValue
            /\ filename[6] \in DOMAIN CharValue
            /\ loc.month = CharValue[filename[3]]
            /\ loc.hour = CharValue[filename[6]]
            /\ loc.month \in 1..12
            /\ loc.hour \in 0..23
    /\ (pc # "filename" /\ filename[1] = "2"
        /\ filename[3] \in {"d", "e", "f", "g", "h", "i", "j", "k", "l", "m", "n"})
         => /\ pc = "raised"
            /\ exc.type = "ValueError"
            /\ exc.name = "month"
    /\ ret.returned
         => /\ ret.all_data.month = CharValue[filename[3]]
            /\ ret.all_data.hour = CharValue[filename[6]]
            /\ ret.all_data.minute = 10 * CharValue[filename[7]] + CharValue[filename[8]]
            /\ ret.all_data.time_minutes_since_start_of_day
                   = 60 * ret.all_data.hour + ret.all_data.minute

C20_Witness ==
    /\ ret.returned
    /\ filename[3] = "c"
    /\ filename[6] = "n"
    /\ filename[7] = "5"
    /\ ret.all_data.month = 12
    /\ ret.all_data.hour = 23
    /\ ret.all_data.minute = 59

\* a month letter above 12 stops the decode
C20_WitnessRejected ==
    /\ pc = "raised"
    /\ filename[3] = "n"
    /\ exc = ValueError("month", Num(23), 12)

\* C24: for every known revision the read position after each gate is the
\* one a decode with variance_test truthy has there, whatever the option,
\* and the words after the variance block are read from the same offsets.
C24_OptionKeepsOffsets ==
    Decoding
        => /\ read_pos = FileGateStart(FileVersion, k)
           /\ \A i \in 1..k :
                LET vp == FileGateStart(FileVersion, i - 1) + 16 * 4 + 48 * 4
                IN  /\ arr["validation_1"][i] = I32(data, vp)
                    /\ arr["overall_validation"][i] = I32(data, vp + 24)

\* the 16-bit word after m_DecalageTraitment in gate g (1-based) of the file
FileDShort(g) ==
    LET b == FileGateStart(FileVersion, g - 1) + 16 * 4 + 48 * 4 + 7 * 4
             + DureeWidth(FileVersion) + 2
    IN  Byte(data, b) + 256 * Byte(data, b + 1)

FileOverallValidation(g) ==
    Byte(data, FileGateStart(FileVersion, g - 1) + 16 * 4 + 48 * 4 + 6 * 4)

RawEast(i) == F32(data, DecodedGateStart(i - 1))

RawNorth(i) == F32(data, DecodedGateStart(i - 1) + 4)

\* C25: a gate whose raw eastward or northward word is the sentinel 999999
\* has that component, the wind speed and the wind direction all missing,
\* so neither the +360 nor the +180 correction has acted on it; the
\* returned record carries the same.
C25_MissingPropagates ==
    Decoding
        => \A i \in 1..k :
             (RawEast(i) = Num(999999) \/ RawNorth(i) = Num(999999))
                 => /\ arr["u_east"][i] = NaN \/ arr["v_north"][i] = NaN
                    /\ arr["wp_windspeed"][i] = NaN
                    /\ arr["wp_winddir"][i] = NaN
                    /\ ret.returned
                         => /\ ret.all_data.wind_speed[i] = NaN
                            /\ ret.all_data.wind_from_direction[i] = NaN

C25_Witness ==
    /\ ret.returned
    /\ FileNoHeights = 2
    /\ RawEast(2) = Num(999999)
    /\ RawNorth(2) = Num(3)
    /\ ret.all_data.eastward_wind[2] = NaN
    /\ ret.all_data.northward_wind[2] = Num(3)
    /\ ret.all_data.wind_speed[2] = NaN
    /\ ret.all_data.wind_from_direction[2] = NaN

(***************************************************************************)
(* wind_profiler_netcdf.main, one action per step.                         *)
(***************************************************************************)
\* the variables of the decoder and of make_netcdf_snr_winds, at rest
DecoderAtRest ==
    /\ filename = DefaultName
    /\ first = NotRun
    /\ data = [len |-> 0, patch |-> <<>>]
    /\ variance_test = TRUE
    /\ pc = "idle"
    /\ read_pos = 0
    /\ loc = LocInit
    /\ arr = Zeros(0)
    /\ k = 0
    /\ ret = NoRecord
    /\ exc = None

WriterRecords ==
    {RecBase, RecLater, RecEarlier, RecOneGate, RecOtherGrid, RecOtherLatitude,
     Undecodable}

InitWriter ==
    /\ DecoderAtRest
    /\ mk = MkIdle
    /\ all_trw_files \in FileLists(WriterRecords)
    /\ \E typed \in BOOLEAN : nc = [NcIdle EXCEPT !.pc = "first", !.typed = typed]

NcRaise(e) ==
    /\ nc' = [nc EXCEPT !.pc = "raised", !.exc = e]
    /\ UNCHANGED <<all_trw_files, mk, filename, first, data, variance_test, pc,
                   read_pos, loc, arr, k, ret, exc>>

NcStep(next) ==
    /\ nc' = next
    /\ UNCHANGED <<all_trw_files, mk, filename, first, data, variance_test, pc,
                   read_pos, loc, arr, k, ret, exc>>

\* 'TRT0' in all_trw_files[0]
InPath(s, path) == \E j \in 1..Len(path) : path[j] = s

\* wind_profiler_netcdf.py 147-153
ModeOf(path) ==
    IF InPath("TRT0", path) THEN "high-mode"
    ELSE IF InPath("TRT1", path) THEN "low-mode"
    ELSE "unexpected"

\* wind_profiler_netcdf.py 143-145: the first file gives the date and the
\* number of heights
ReadFirstFile ==
    /\ nc.pc = "first"
    /\ IF Len(all_trw_files) = 0
       THEN NcRaise(IndexError)
       ELSE LET f == all_trw_files[1].rec
            IN  IF ~ f.decoded
                THEN NcRaise(f.exc)
                ELSE NcStep([nc EXCEPT
                               !.pc = "mode",
                               !.date = 10000 * f.all_data.year
                                        + 100 * f.all_data.month + f.all_data.day,
                               !.no_heights = Len(f.all_data.altitude)])

\* wind_profiler_netcdf.py 147-153
SelectMode ==
    /\ nc.pc = "mode"
    /\ IF ModeOf(all_trw_files[1].path) = "unexpected"
       THEN NcRaise(ValueError("Unexpected mode", Unbound, 0))
       ELSE NcStep([nc EXCEPT !.pc = "create",
                              !.mode = ModeOf(all_trw_files[1].path)])

\* wind_profiler_netcdf.py 157-163
CreateNetcdf ==
    /\ nc.pc = "create"
    /\ NcStep([nc EXCEPT !.pc = "files", !.i = 0,
                         !.ncfile = NewNcFile(Len(all_trw_files), nc.no_heights)])

\* wind_profiler_netcdf.py 169-181: one turn of the loop over the files
FoldFile ==
    /\ nc.pc = "files"
    /\ nc.i < Len(all_trw_files)
    /\ LET f == all_trw_files[nc.i + 1].rec
           o == AddDatasets(nc.ncfile.v, DataNames, f.all_data, nc.i, nc.typed)
       IN  IF ~ f.decoded
           THEN NcRaise(f.exc)
           ELSE IF o.exc # None
           THEN /\ nc' = [nc EXCEPT !.pc = "raised", !.exc = o.exc, !.ncfile.v = o.v]
                /\ UNCHANGED <<all_trw_files, mk, filename, first, data,
                               variance_test, pc, read_pos, loc, arr, k, ret, exc>>
           ELSE NcStep([nc EXCEPT
                          !.i = nc.i + 1,
                          !.ncfile.v = o.v,
                          !.ncfile.attrs = SetAttrs(nc.ncfile.attrs, f.all_attrs)])

\* wind_profiler_netcdf.py 217-222: the first and the last value of time
Coverage(time) ==
    [start |-> Timestamp(time[1]), end |-> Timestamp(time[Len(time)])]

\* wind_profiler_netcdf.py 189-233
CloseFile ==
    /\ nc.pc = "files"
    /\ nc.i = Len(all_trw_files)
    /\ NcStep([nc EXCEPT
                 !.pc = "remove_empty",
                 !.ncfile.time_coverage_start = Coverage(nc.ncfile.v.time.data).start,
                 !.ncfile.time_coverage_end = Coverage(nc.ncfile.v.time.data).end])

\* wind_profiler_netcdf.py 237
RemoveEmpty ==
    /\ nc.pc = "remove_empty"
    /\ NcStep([nc EXCEPT !.pc = "done"])

NextWriter ==
    \/ ReadFirstFile
    \/ SelectMode
    \/ CreateNetcdf
    \/ FoldFile
    \/ CloseFile
    \/ RemoveEmpty

SpecWriter == InitWriter /\ [][NextWriter]_vars

\* main has passed the choice of the mode
PastMode == nc.pc \in {"create", "files", "remove_empty", "done"}

HasComponent(s) ==
    /\ Len(all_trw_files) > 0
    /\ \E j \in 1..Len(all_trw_files[1].path) : all_trw_files[1].path[j] = s

\* C21: the mode option comes from the path of the first input file: a
\* path with TRT1 gives high-mode, a path with TRT0 gives low-mode, and a
\* path with neither raises ValueError.
C21_ModeFromPath ==
    /\ (PastMode /\ HasComponent("TRT1") /\ ~ HasComponent("TRT0"))
         => nc.mode = "high-mode"
    /\ (PastMode /\ HasComponent("TRT0") /\ ~ HasComponent("TRT1"))
         => nc.mode = "low-mode"
    /\ (Len(all_trw_files) > 0 /\ ~ HasComponent("TRT0") /\ ~ HasComponent("TRT1"))
         => ~ PastMode

\* the values the files folded so far have written to the time variable
\* and to wind_speed, nan left out
WrittenTimes ==
    {all_trw_files[j].rec.all_data.time.v : j \in 1..nc.i}

WrittenWinds ==
    UNION {Numbers(all_trw_files[j].rec.all_data.wind_speed) : j \in 1..nc.i}

\* C22: after any sequence of add calls on a variable, valid_min is the
\* least and valid_max the greatest of the values written to it so far,
\* nan left out; stated for time (add_1d_dataset_one_file_time) and for
\* wind_speed (add_2d_dataset).
C22_ValidRange ==
    (nc.pc \in {"files", "remove_empty", "done"} /\ nc.i >= 1)
        => /\ nc.ncfile.v.time.valid_min = Num(SetMin(WrittenTimes))
           /\ nc.ncfile.v.time.valid_max = Num(SetMax(WrittenTimes))
           /\ WrittenWinds # {}
                => /\ nc.ncfile.v.wind_speed.valid_min = Num(SetMin(WrittenWinds))
                   /\ nc.ncfile.v.wind_speed.valid_max = Num(SetMax(WrittenWinds))

\* the record times of the input files
FileTimes == {all_trw_files[j].rec.all_data.time.v : j \in 1..Len(all_trw_files)}

\* C28: the file is written with time_coverage_start at the earliest and
\* time_coverage_end at the latest record time of the input files, in
\* whatever order the files are given, so the start is not after the end.
C28_CoverageSpansFiles ==
    nc.pc \in {"remove_empty", "done"}
        => /\ nc.ncfile.time_coverage_start = Timestamp(Num(SetMin(FileTimes)))
           /\ nc.ncfile.time_coverage_end = Timestamp(Num(SetMax(FileTimes)))
           /\ nc.ncfile.time_coverage_start.v <= nc.ncfile.time_coverage_end.v

\* C29: while the files are folded in order, each global attribute that
\* comes from the files holds the value of the first file from the moment
\* that file has been folded; a later file with another value does not
\* replace it.
C29_FirstFileSetsAttributes ==
    /\ (nc.pc = "files" /\ nc.i = 0)
         => \A a \in AttrNames : nc.ncfile.attrs[a] = EmptyText
    /\ (nc.pc \in {"files", "remove_empty", "done"} /\ nc.i >= 1)
         => \A a \in AttrNames :
              nc.ncfile.attrs[a] = all_trw_files[1].rec.all_attrs[a]

C29_Witness ==
    /\ nc.pc = "done"
    /\ Len(all_trw_files) = 3
    /\ all_trw_files[1].rec.all_attrs.instrument_software_version = Text(545)
    /\ all_trw_files[2].rec.all_attrs.instrument_software_version = Text(749)
    /\ all_trw_files[2].rec.all_attrs.averaging_interval = Num(15)
    /\ nc.ncfile.attrs.instrument_software_version = Text(545)
    /\ nc.ncfile.attrs.averaging_interval = Num(30)

\* a variable that holds data
Populated(var) ==
    /\ var.valid_min # DerivedFromFile
    /\ \E j \in 1..Len(var.data) : var.data[j] # Masked

\* C30: a step of the writer leaves a populated altitude, latitude or
\* longitude variable as it is, data, valid_min and valid_max, whether the
\* file folded has equal or different values; so the variable holds what
\* the first file put there.
C30_PopulatedDimensionKept ==
    [][/\ \A n \in DimensionNames :
            Populated(nc.ncfile.v[n]) => nc'.ncfile.v[n] = nc.ncfile.v[n]
       /\ (nc'.pc = "files" /\ nc'.i >= 1)
            => /\ nc'.ncfile.v.altitude.data = all_trw_files[1].rec.all_data.altitude
               /\ nc'.ncfile.v.latitude.data = <<all_trw_files[1].rec.all_data.latitude>>
               /\ nc'.ncfile.v.longitude.data = <<all_trw_files[1].rec.all_data.longitude>>]_vars

C30_Witness ==
    /\ nc.pc = "files"
    /\ nc.i = 3
    /\ all_trw_files[1].rec = RecBase
    /\ all_trw_files[2].rec = RecOtherGrid
    /\ all_trw_files[3].rec = RecOtherLatitude
    /\ nc.ncfile.v.altitude.data = Grid
    /\ nc.ncfile.v.altitude.valid_max = Num(175)
    /\ nc.ncfile.v.latitude.data = <<Num(52)>>

(***************************************************************************)
(* process_wp.make_netcdf_snr_winds, one action per step.  The altitudes   *)
(* of the files are kept as numpy keeps them: the array of the first file  *)
(* (ndim 1), stacked with those of the later files (ndim 2).               *)
(***************************************************************************)
BatchRecords ==
    {RecBase, RecLater, RecNextDay, RecOtherGrid, RecOneGate, RecOtherLatitude,
     RecOtherLongitude, Undecodable}

InitBatch ==
    /\ DecoderAtRest
    /\ nc = NcIdle
    /\ all_trw_files \in FileLists(BatchRecords)
    /\ mk = [MkIdle EXCEPT !.pc = "read"]

MkRaise(e) ==
    /\ mk' = [mk EXCEPT !.pc = "raised", !.exc = e]
    /\ UNCHANGED <<all_trw_files, nc, filename, first, data, variance_test, pc,
                   read_pos, loc, arr, k, ret, exc>>

MkStep(next) ==
    /\ mk' = next
    /\ UNCHANGED <<all_trw_files, nc, filename, first, data, variance_test, pc,
                   read_pos, loc, arr, k, ret, exc>>

\* process_wp.py 40: the date of the file, the day of data['time'] in UTC
FileDate(t) == t.v \div 86400

\* process_wp.py 52-66: the array of the first file as it is, np.vstack
\* for the others
StackAltitude(all_altitude, value, i) ==
    IF i = 0 THEN [ndim |-> 1, rows |-> <<value>>]
    ELSE [ndim |-> 2, rows |-> Append(all_altitude.rows, value)]

\* np.vstack accepts rows of one length
Stackable(all_altitude, value, i) ==
    i = 0 \/ Len(value) = Len(all_altitude.rows[1])

\* process_wp.py 37-73: one turn of the loop over the files
ReadTrwFile ==
    /\ mk.pc = "read"
    /\ mk.i < Len(all_trw_files)
    /\ LET f == all_trw_files[mk.i + 1].rec
           d == f.all_data
       IN  IF ~ f.decoded
           THEN MkRaise(f.exc)
           ELSE IF ~ Stackable(mk.altitude, d.altitude, mk.i)
           THEN MkRaise(ValueError("vstack", Unbound, 0))
           ELSE MkStep([mk EXCEPT
                          !.i = mk.i + 1,
                          !.all_unix_times = Append(mk.all_unix_times, d.time.v),
                          !.all_file_date = Append(mk.all_file_date, FileDate(d.time)),
                          !.altitude = StackAltitude(mk.altitude, d.altitude, mk.i),
                          !.latitude = Append(mk.latitude, d.latitude),
                          !.longitude = Append(mk.longitude, d.longitude)])

\* len(set(xs)) of a list of floats: a nan is equal to no other value
SetLen(xs) ==
    Cardinality({xs[j].v : j \in {n \in 1..Len(xs) : IsNum(xs[n])}})
    + Cardinality({n \in 1..Len(xs) : ~ IsNum(xs[n])})

\* rows compared over the first two files only
AltitudesEqual_FirstPair(rows) ==
    Len(rows) < 2
    \/ \A h \in 1..Len(rows[1]) : IsNum(rows[1][h]) /\ rows[2][h] = rows[1][h]

\* process_wp.py 83: (altitude[1:,:] == altitude[:-1,:]).all()
AltitudesEqual(rows) ==
    \A r \in 1..(Len(rows) - 1) :
        \A h \in 1..Len(rows[r]) : IsNum(rows[r][h]) /\ rows[r + 1][h] = rows[r][h]

\* process_wp.py 76-93: the exception of the checks, or None
CheckFiles(m) ==
    IF Cardinality({m.all_file_date[j] : j \in 1..Len(m.all_file_date)}) # 1
    THEN ValueError("More than one date", Unbound, 0)
    ELSE IF m.altitude.ndim = 1
    THEN IndexError
    ELSE IF ~ AltitudesEqual(m.altitude.rows)
    THEN ValueError("Changing altitudes", Unbound, 0)
    ELSE IF SetLen(m.latitude) # 1
    THEN ValueError("Changing latitude", Unbound, 0)
    ELSE IF SetLen(m.longitude) # 1
    THEN ValueError("Changing longitude", Unbound, 0)
    ELSE None

\* process_wp.py 76-93
CheckConsistency ==
    /\ mk.pc = "read"
    /\ mk.i = Len(all_trw_files)
    /\ IF CheckFiles(mk) # None
       THEN MkRaise(CheckFiles(mk))
       ELSE MkStep([mk EXCEPT !.pc = "create"])

\* process_wp.py 102-107: create_netcdf.main, then os.rename
CreateAndRename ==
    /\ mk.pc = "create"
    /\ MkStep([mk EXCEPT
                 !.pc = "write",
                 !.created = TRUE,
                 !.renamed = TRUE,
                 !.dimension_lengths =
                     [time |-> Len(mk.all_unix_times),
                      altitude |-> Len(mk.altitude.rows[1])]])

SeqSet(xs) == {xs[j] : j \in 1..Len(xs)}

\* process_wp.py 108-162
WriteVariables ==
    /\ mk.pc = "write"
    /\ MkStep([mk EXCEPT
                 !.pc = "done",
                 !.time_coverage_start = SetMin(SeqSet(mk.all_unix_times)),
                 !.time_coverage_end = SetMax(SeqSet(mk.all_unix_times))])

NextBatch ==
    \/ ReadTrwFile
    \/ CheckConsistency
    \/ CreateAndRename
    \/ WriteVariables

SpecBatch == InitBatch /\ [][NextBatch]_vars

(***************************************************************************)
(* Properties of make_netcdf_snr_winds.                                    *)
(***************************************************************************)
NumFiles == Len(all_trw_files)

AllDecoded == \A j \in 1..NumFiles : all_trw_files[j].rec.decoded

DataOf(j) == all_trw_files[j].rec.all_data

\* two decoded files of the list differ in date, altitude grid, latitude
\* or longitude
Inconsistent ==
    \E a, b \in {j \in 1..NumFiles : all_trw_files[j].rec.decoded} :
        \/ DataOf(a).time.v \div 86400 # DataOf(b).time.v \div 86400
        \/ DataOf(a).altitude # DataOf(b).altitude
        \/ DataOf(a).latitude # DataOf(b).latitude
        \/ DataOf(a).longitude # DataOf(b).longitude

\* C23: when the files span more than one date, or the altitude grid, the
\* latitude or the longitude of one file differs from that of another, no
\* netCDF file is created or renamed, and with every file decoded the run
\* ends in ValueError.
C23_InconsistentFilesRejected ==
    Inconsistent
        => /\ ~ mk.created
           /\ ~ mk.renamed
           /\ mk.pc \in {"read", "raised"}
           /\ (AllDecoded /\ mk.pc = "raised") => mk.exc.type = "ValueError"
           /\ (AllDecoded /\ mk.pc = "read" /\ mk.i = NumFiles)
                  => CheckFiles(mk).type = "ValueError"

C23_Witness ==
    /\ NumFiles = 3
    /\ AllDecoded
    /\ DataOf(1) = DataOf(2)
    /\ DataOf(3).latitude = Num(53)
    /\ mk.pc = "raised"
    /\ mk.i = 3
    /\ mk.exc = ValueError("Changing latitude", Unbound, 0)
    /\ ~ mk.created

\* C27: a list of exactly one decodable file passes the checks and reaches
\* the creation of the netCDF file, with a time dimension of length 1 and
\* an altitude dimension of length no_heights.
C27_SingleFileAccepted ==
    (NumFiles = 1 /\ AllDecoded)
        => /\ mk.pc # "raised"
           /\ mk.created
                => mk.dimension_lengths =
                       [time |-> 1, altitude |-> Len(DataOf(1).altitude)]

====
